---- MODULE Spec2Model ----
(***************************************************************************)
(* A model of just-latex (src/src/main.rs, src/src/svg_utils.rs): the      *)
(* Pandoc filter that collects math fragments from a document tree,        *)
(* assembles one LaTeX source with a line range per fragment, runs the     *)
(* compiler and dvisvgm, rebuilds each fragment's page regions from the    *)
(* SyncTeX boxes of its lines and overwrites the math nodes with HTML.     *)
(*                                                                         *)
(* Texts are sequences of one-character strings, so that trimming, line    *)
(* counting and template substitution are computed and not assumed.        *)
(***************************************************************************)
EXTENDS Integers, Sequences, FiniteSets, TLC

VARIABLES
    pc,          \* position of the run (or the name of the stand-alone spec's phase)
    config,      \* Config: mode, preamble, postamble, template, margins
    input,       \* history: the document tree as it was read
    tree,        \* the document tree (serde_json::Value), mutated in place
    final_node,  \* the path of the placeholder block pushed before the walk
    fragments,   \* FragmentRenderer::fragments
    visited,     \* history: the nodes handed to add_fragment, in order
    source_str,  \* the assembled LaTeX source
    lines,       \* one line range per fragment
    offsets,     \* history: where in source_str each expansion was appended
    env,         \* what the external tools can produce: boxes, svg pages
    svgs,        \* the parsed SVG pages (view box origin, leaf bboxes)
    seen_boxes,  \* the HashSet of boxes already folded in this run
    idx,         \* number of fragments the render loop has completed
    qlog,        \* history: every scanner.query of the run and what it folded
    rendered,    \* history: per completed fragment, its regions and markup
    externals,   \* history: the external programs started, in order
    err,         \* the error the run ended with, or NoError
    out,         \* what main wrote to stdout, or NoOutput
    arg,         \* the arguments of a function applied on its own
    ret          \* what that function returned

vars == <<pc, config, input, tree, final_node, fragments, visited, source_str, lines, offsets, env,
          svgs, seen_boxes, idx, qlog, rendered, externals, err, out, arg, ret>>

\* No step of a run applies a function on its own.
NoCall == <<>>

(***************************************************************************)
(* Bounds of the model.                                                    *)
(***************************************************************************)
MaxVisits == 3
MaxAsmVisits == 3
MaxQueryLen == 2

(***************************************************************************)
(* Text: str::trim, trim_start, trim_end, starts_with, lines, replace.     *)
(***************************************************************************)
WhiteSpace == {" ", "\n", "\t"}

RECURSIVE TrimEnd(_)
TrimEnd(s) ==
    IF s = <<>> THEN <<>>
    ELSE IF s[Len(s)] \in WhiteSpace THEN TrimEnd(SubSeq(s, 1, Len(s) - 1))
    ELSE s

RECURSIVE TrimStart(_)
TrimStart(s) ==
    IF s = <<>> THEN <<>>
    ELSE IF s[1] \in WhiteSpace THEN TrimStart(Tail(s))
    ELSE s

Trim(s) == TrimStart(TrimEnd(s))

StartsWith(s, p) == Len(s) >= Len(p) /\ SubSeq(s, 1, Len(p)) = p

\* The number of "\n" in s.
NewLines(s) == Cardinality({i \in DOMAIN s : s[i] = "\n"})

\* str::lines().count(): a final line without its line break counts, an empty
\* line after the last line break does not.
LinesCount(s) ==
    NewLines(s) + (IF s # <<>> /\ s[Len(s)] # "\n" THEN 1 ELSE 0)

\* str::replace with a one-character pattern: every occurrence of ph in t becomes x.
RECURSIVE Replace(_, _, _)
Replace(t, ph, x) ==
    IF t = <<>> THEN <<>>
    ELSE (IF t[1] = ph THEN x ELSE <<t[1]>>) \o Replace(Tail(t), ph, x)

MARK_RAW == <<"%", "r", "a", "w">>
MARK_DONTSHOW == <<"%", "d", "o", "n", "t", "s", "h", "o", "w">>

(***************************************************************************)
(* Style: Plain is the empty sequence, Fancy{base, this} is base with this *)
(* appended; the derived equality compares the chains element by element.  *)
(***************************************************************************)
Plain == <<>>
Header(level) == [e |-> "Header", level |-> level]
Quote == [e |-> "Quote", level |-> 0]
Strong == [e |-> "Strong", level |-> 0]
Emph == [e |-> "Emph", level |-> 0]

Push(style, new) == Append(style, new)

RECURSIVE StyleTemplate(_, _)
StyleTemplate(style, tc) ==
    IF style = Plain THEN tc.inline_math_inner
    ELSE LET base == SubSeq(style, 1, Len(style) - 1)
             this == style[Len(style)]
             this_template ==
                 CASE this.e = "Header" -> tc.header[this.level]
                   [] this.e = "Quote" -> tc.quote
                   [] this.e = "Strong" -> tc.strong
                   [] OTHER -> tc.emph
         IN Replace(this_template, tc.placeholder, StyleTemplate(base, tc))

(***************************************************************************)
(* Fragments.  A back-reference is the kind of node it points at and the   *)
(* path of the node in the tree.                                           *)
(***************************************************************************)
InlineRef(path) == [kind |-> "Inline", path |-> path]
BlockRef(path) == [kind |-> "Block", path |-> path]

Fragment(ty, style, src, refs) ==
    [ty |-> ty, style |-> style, src |-> src, refs |-> refs]

\* A deduplication that forgets the Style.
SameInlineAnyStyle(item, src, style) ==
    item.ty = "InlineMath" /\ item.src = src

\* The guard of the match arm of add_fragment: an inline fragment of the same
\* trimmed source and the same Style.
SameInline(item, src, style) ==
    item.ty = "InlineMath" /\ item.src = src /\ item.style = style

\* A deduplication that moves the fragment of a repeated inline math to the end
\* of the list.
AddFragmentMoveToEnd(frags, ty, style, src, node_ref) ==
    IF ty = "InlineMath"
    THEN LET s == Trim(src)
             hits == {i \in DOMAIN frags : SameInline(frags[i], s, style)}
         IN IF hits # {}
            THEN LET i == CHOOSE h \in hits : \A g \in hits : h <= g
                 IN Append(SubSeq(frags, 1, i - 1) \o SubSeq(frags, i + 1, Len(frags)),
                           [frags[i] EXCEPT !.refs = Append(@, node_ref)])
            ELSE Append(frags, Fragment(ty, style, s, <<node_ref>>))
    ELSE Append(frags, Fragment(ty, Plain, Trim(src), <<node_ref>>))

\* A deduplication that also merges the other kinds of fragment.
AddFragmentMergeAll(frags, ty, style, src, node_ref) ==
    LET s == Trim(src)
        hits == {i \in DOMAIN frags : frags[i].ty = ty /\ frags[i].src = s
                                      /\ frags[i].style = style}
    IN IF hits # {}
       THEN LET i == CHOOSE h \in hits : \A g \in hits : h <= g
            IN [frags EXCEPT ![i].refs = Append(@, node_ref)]
       ELSE Append(frags, Fragment(ty, style, s, <<node_ref>>))

AddFragment(frags, ty, style, src, node_ref) ==
    IF ty = "InlineMath"
    THEN LET s == Trim(src)
             hits == {i \in DOMAIN frags : SameInline(frags[i], s, style)}
         IN IF hits # {}
            THEN LET i == CHOOSE h \in hits : \A g \in hits : h <= g
                 IN [frags EXCEPT ![i].refs = Append(@, node_ref)]
            ELSE Append(frags, Fragment(ty, style, s, <<node_ref>>))
    ELSE Append(frags, Fragment(ty, Plain, Trim(src), <<node_ref>>))

\* The classification of a Math node in walk_inline.
MathType(mathTy, text) ==
    IF mathTy = "InlineMath" THEN "InlineMath"
    ELSE IF StartsWith(TrimStart(text), MARK_RAW) THEN "RawBlock"
    ELSE IF StartsWith(TrimStart(text), MARK_DONTSHOW) THEN "DontShow"
    ELSE "DisplayMath"

\* The classification of a tex RawBlock node in walk_block.
RawType(text) ==
    IF StartsWith(TrimStart(text), MARK_DONTSHOW) THEN "DontShow" ELSE "RawBlock"

(***************************************************************************)
(* serde_json::Value.  Every value is a record of the same shape: k is the *)
(* kind; an object carries its "t" in t ("" when it has none) and, when it *)
(* has a "c", that value as its only child; an array carries its items in  *)
(* a; a string its text in s; a number its value in n.  The document root  *)
(* is an object whose only child is its "blocks".                          *)
(***************************************************************************)
JNull == [k |-> "null", t |-> "", s |-> <<>>, n |-> 0, a |-> <<>>]
JStr(s) == [k |-> "str", t |-> "", s |-> s, n |-> 0, a |-> <<>>]
JNum(n) == [k |-> "num", t |-> "", s |-> <<>>, n |-> n, a |-> <<>>]
JArr(a) == [k |-> "arr", t |-> "", s |-> <<>>, n |-> 0, a |-> a]
JObj(t, c) == [k |-> "obj", t |-> t, s |-> <<>>, n |-> 0, a |-> <<c>>]
JTag(t) == [k |-> "obj", t |-> t, s |-> <<>>, n |-> 0, a |-> <<>>]

IsArr(v) == v.k = "arr"
IsStr(v) == v.k = "str"
\* value["t"].as_str(): present only on an object that has a "t".
HasT(v) == v.k = "obj" /\ v.t # ""
\* value["c"]: Null when there is none.
C(v) == IF v.k = "obj" /\ v.a # <<>> THEN v.a[1] ELSE JNull
\* value[i] read-only, 0-based: Null when v is no array or i is out of range.
Get(v, i) == IF IsArr(v) /\ i < Len(v.a) THEN v.a[i + 1] ELSE JNull
\* &mut value[i] panics when v is no array or i is out of range.
CanIndexMut(v, i) == IsArr(v) /\ i < Len(v.a)

RECURSIVE NodeAt(_, _)
NodeAt(v, path) ==
    IF path = <<>> THEN v ELSE NodeAt(v.a[path[1]], Tail(path))

\* **node = new, for the node a back-reference points at.
RECURSIVE ReplaceAt(_, _, _)
ReplaceAt(v, path, new) ==
    IF path = <<>> THEN new
    ELSE [v EXCEPT !.a[path[1]] = ReplaceAt(@, Tail(path), new)]

HTML == <<"html">>
TEX == <<"tex">>
RawInlineHtml(html) == JObj("RawInline", JArr(<<JStr(HTML), JStr(html)>>))
RawBlockHtml(html) == JObj("RawBlock", JArr(<<JStr(HTML), JStr(html)>>))

(***************************************************************************)
(* Errors.  A run ends with at most one: kind names the failure, at the    *)
(* context string of the walk, src the fragment source an error names.     *)
(***************************************************************************)
NoError == [kind |-> "none", at |-> "", src |-> <<>>]
Error(kind, at, src) == [kind |-> kind, at |-> at, src |-> src]
Malformed(at) == Error("malformed", at, <<>>)
Panic(at) == Error("panic", at, <<>>)

\* The collector's state while walking: the fragment list and the error met.
WalkState(frags, e) == [frags |-> frags, err |-> e]
Fail(st, e) == [st EXCEPT !.err = e]

(***************************************************************************)
(* The tree walk.  v is the node at path; st is threaded through the loops *)
(* and an error ends the walk (the ? operator).                            *)
(***************************************************************************)
RECURSIVE WalkBlock(_, _, _, _)
RECURSIVE WalkInline(_, _, _, _)
RECURSIVE WalkBlocksFrom(_, _, _, _, _)
RECURSIVE WalkListOfBlocksFrom(_, _, _, _, _, _)
RECURSIVE WalkInlinesFrom(_, _, _, _, _)
RECURSIVE WalkListOfInlinesFrom(_, _, _, _, _, _)
RECURSIVE WalkCellsFrom(_, _, _, _, _, _)
RECURSIVE WalkRowsFrom(_, _, _, _, _, _)
RECURSIVE WalkRowListsFrom(_, _, _, _, _)
RECURSIVE WalkBodiesFrom(_, _, _, _, _)
RECURSIVE WalkTableFrom(_, _, _, _, _)

WalkBlocksFrom(v, path, style, st, i) ==
    IF st.err # NoError \/ i > Len(v.a) THEN st
    ELSE WalkBlocksFrom(v, path, style,
                        WalkBlock(v.a[i], Append(path, i), style, st), i + 1)

WalkBlocks(v, path, parent, style, st) ==
    IF st.err # NoError THEN st
    ELSE IF ~IsArr(v) THEN Fail(st, Malformed(parent))
    ELSE WalkBlocksFrom(v, path, style, st, 1)

WalkListOfBlocksFrom(v, path, parent, style, st, i) ==
    IF st.err # NoError \/ i > Len(v.a) THEN st
    ELSE WalkListOfBlocksFrom(v, path, parent, style,
             WalkBlocks(v.a[i], Append(path, i), parent, style, st), i + 1)

WalkListOfBlocks(v, path, parent, style, st) ==
    IF st.err # NoError THEN st
    ELSE IF ~IsArr(v) THEN Fail(st, Malformed(parent))
    ELSE WalkListOfBlocksFrom(v, path, parent, style, st, 1)

WalkInlinesFrom(v, path, style, st, i) ==
    IF st.err # NoError \/ i > Len(v.a) THEN st
    ELSE WalkInlinesFrom(v, path, style,
                         WalkInline(v.a[i], Append(path, i), style, st), i + 1)

WalkInlines(v, path, parent, style, st) ==
    IF st.err # NoError THEN st
    ELSE IF ~IsArr(v) THEN Fail(st, Malformed(parent))
    ELSE WalkInlinesFrom(v, path, style, st, 1)

WalkListOfInlinesFrom(v, path, parent, style, st, i) ==
    IF st.err # NoError \/ i > Len(v.a) THEN st
    ELSE WalkListOfInlinesFrom(v, path, parent, style,
             WalkInlines(v.a[i], Append(path, i), parent, style, st), i + 1)

WalkListOfInlines(v, path, parent, style, st) ==
    IF st.err # NoError THEN st
    ELSE IF ~IsArr(v) THEN Fail(st, Malformed(parent))
    ELSE WalkListOfInlinesFrom(v, path, parent, style, st, 1)

\* for cell in row[1]: walk_blocks(&mut cell[4]).
WalkCellsFrom(v, path, parent, style, st, i) ==
    IF st.err # NoError \/ i > Len(v.a) THEN st
    ELSE IF ~CanIndexMut(v.a[i], 4) THEN Fail(st, Panic(parent))
    ELSE WalkCellsFrom(v, path, parent, style,
             WalkBlocks(v.a[i].a[5], path \o <<i, 5>>, "[Cell]", style, st), i + 1)

\* for row in value: the cells of row[1].
WalkRowsFrom(v, path, parent, style, st, i) ==
    IF st.err # NoError \/ i > Len(v.a) THEN st
    ELSE IF ~IsArr(Get(v.a[i], 1))
         THEN Fail(st, Malformed(parent))
    ELSE WalkRowsFrom(v, path, parent, style,
             WalkCellsFrom(v.a[i].a[2], path \o <<i, 2>>, parent, style, st, 1),
             i + 1)

WalkRows(v, path, parent, style, st) ==
    IF st.err # NoError THEN st
    ELSE IF ~IsArr(v) THEN Fail(st, Malformed(parent))
    ELSE WalkRowsFrom(v, path, parent, style, st, 1)

\* table_body.iter_mut().skip(2): the row lists of one TableBody.
WalkRowListsFrom(v, path, style, st, i) ==
    IF st.err # NoError \/ i > Len(v.a) THEN st
    ELSE WalkRowListsFrom(v, path, style,
             WalkRows(v.a[i], Append(path, i), "Table.[TableBody].[Row]", style, st),
             i + 1)

WalkBodiesFrom(v, path, style, st, i) ==
    IF st.err # NoError \/ i > Len(v.a) THEN st
    ELSE IF ~IsArr(v.a[i])
         THEN Fail(st, Malformed("content of Table.[TableBody]"))
    ELSE WalkBodiesFrom(v, path, style,
             WalkRowListsFrom(v.a[i], Append(path, i), style, st, 3), i + 1)

\* The loop over the contents of a Table, content i (0-based) at v.a[i + 1].
WalkTableFrom(v, path, style, st, i) ==
    IF st.err # NoError \/ i >= Len(v.a) THEN st
    ELSE LET content == v.a[i + 1]
             p == Append(path, i + 1)
             next ==
                 CASE i \in {1, 3, 5} /\ ~CanIndexMut(content, 1) ->
                          Fail(st, Panic("Table"))
                   [] i = 1 /\ CanIndexMut(content, 1) ->
                          WalkBlocks(content.a[2], Append(p, 2), "Table.Caption",
                                     style, st)
                   [] i = 3 /\ CanIndexMut(content, 1) ->
                          WalkRows(content.a[2], Append(p, 2), "Table.TableHead",
                                   style, st)
                   [] i = 4 /\ ~IsArr(content) ->
                          Fail(st, Malformed("Table.[TableBody]"))
                   [] i = 4 /\ IsArr(content) ->
                          WalkBodiesFrom(content, p, style, st, 1)
                   [] i = 5 /\ CanIndexMut(content, 1) ->
                          WalkRows(content.a[2], Append(p, 2), "Table.TableFoot",
                                   style, st)
                   [] OTHER -> st
         IN WalkTableFrom(v, path, style, next, i + 1)

WalkBlock(v, path, style, st) ==
    IF st.err # NoError THEN st
    ELSE IF ~HasT(v) THEN Fail(st, Malformed("type of Block"))
    ELSE LET c == C(v)
             cp == Append(path, 1)
         IN CASE v.t \in {"Para", "Plain"} -> WalkInlines(c, cp, v.t, style, st)
              [] v.t = "LineBlock" -> WalkListOfInlines(c, cp, "LineBlock", style, st)
              [] v.t = "Header" ->
                   IF Get(c, 0).k # "num" THEN Fail(st, Malformed("level of Header"))
                   ELSE IF ~CanIndexMut(c, 2) THEN Fail(st, Panic("Header"))
                   ELSE WalkInlines(c.a[3], Append(cp, 3), "Header",
                                    Push(style, Header(Get(c, 0).n)), st)
              [] v.t = "BlockQuote" ->
                   WalkBlocks(c, cp, "BlockQuote", Push(style, Quote), st)
              [] v.t = "OrderedList" ->
                   IF ~CanIndexMut(c, 1) THEN Fail(st, Panic("OrderedList"))
                   ELSE WalkListOfBlocks(c.a[2], Append(cp, 2), "OrderedList", style, st)
              [] v.t = "BulletList" -> WalkListOfBlocks(c, cp, "BulletList", style, st)
              [] v.t = "Div" ->
                   IF ~CanIndexMut(c, 1) THEN Fail(st, Panic("Div"))
                   ELSE WalkListOfBlocks(c.a[2], Append(cp, 2), "Div", style, st)
              [] v.t = "RawBlock" ->
                   IF ~IsStr(Get(c, 0)) THEN Fail(st, Malformed("format of RawBlock"))
                   ELSE IF Get(c, 0).s # TEX THEN st
                   ELSE IF ~IsStr(Get(c, 1))
                        THEN Fail(st, Malformed("source of RawBlock"))
                   ELSE [st EXCEPT !.frags =
                            AddFragment(@, RawType(Get(c, 1).s), Plain, Get(c, 1).s,
                                        BlockRef(path))]
              [] v.t = "Table" ->
                   IF ~IsArr(c) THEN Fail(st, Malformed("contents of Table"))
                   ELSE WalkTableFrom(c, cp, style, st, 0)
              [] OTHER -> st

WalkInline(v, path, style, st) ==
    IF st.err # NoError THEN st
    ELSE IF ~HasT(v) THEN Fail(st, Malformed("type of Inline"))
    ELSE LET c == C(v)
             cp == Append(path, 1)
         IN CASE v.t = "Math" ->
                   IF ~HasT(Get(c, 0)) THEN Fail(st, Malformed("type of Math"))
                   ELSE IF ~IsStr(Get(c, 1)) THEN Fail(st, Malformed("source of Math"))
                   ELSE IF Get(c, 0).t \notin {"InlineMath", "DisplayMath"}
                        THEN Fail(st, Error("unknown math type", Get(c, 0).t, <<>>))
                   ELSE [st EXCEPT !.frags =
                            AddFragment(@, MathType(Get(c, 0).t, Get(c, 1).s),
                                        IF Get(c, 0).t = "InlineMath" THEN style
                                        ELSE Plain,
                                        Get(c, 1).s, InlineRef(path))]
              [] v.t = "Emph" -> WalkInlines(c, cp, "Emph", Push(style, Emph), st)
              [] v.t = "Strong" -> WalkInlines(c, cp, "Strong", Push(style, Strong), st)
              [] v.t \in {"Underline", "Strikeout"} -> WalkInlines(c, cp, v.t, style, st)
              [] v.t \in {"Link", "Image"} ->
                   IF ~CanIndexMut(c, 1) THEN Fail(st, Panic(v.t))
                   ELSE WalkInlines(c.a[2], Append(cp, 2), v.t, style, st)
              [] OTHER -> st

\* walk_and_create_final_node: the tree with the placeholder pushed, the walk's
\* outcome, and the path of the placeholder.
BlocksOf(t) == C(t)

\* A walk that fills the pushed block at once instead of leaving it for the end.
WalkAndFillFinalNode(t) ==
    IF ~IsArr(BlocksOf(t))
    THEN [tree |-> t, st |-> WalkState(<<>>, Malformed("[blocks] of the Document")),
          final |-> <<>>]
    ELSE LET blocks == BlocksOf(t)
             last_idx == Len(blocks.a)
         IN [tree |-> [t EXCEPT !.a[1].a = Append(@, RawBlockHtml(<<>>))],
             st |-> WalkBlocksFrom(blocks, <<1>>, Plain, WalkState(<<>>, NoError), 1),
             final |-> <<1, last_idx + 1>>]

WalkAndCreateFinalNode(t) ==
    IF ~IsArr(BlocksOf(t))
    THEN [tree |-> t, st |-> WalkState(<<>>, Malformed("[blocks] of the Document")),
          final |-> <<>>]
    ELSE LET blocks == BlocksOf(t)
             last_idx == Len(blocks.a)
         IN [tree |-> [t EXCEPT !.a[1].a = Append(@, JTag(""))],
             st |-> WalkBlocksFrom(blocks, <<1>>, Plain, WalkState(<<>>, NoError), 1),
             final |-> <<1, last_idx + 1>>]

(***************************************************************************)
(* Source assembly: generate_latex_with_line_mappings.                     *)
(***************************************************************************)
Range(start, end) == [start |-> start, end |-> end]
LinesOfRange(r) == {l \in r.start .. (r.end - 1) : TRUE}

\* The expansion of one fragment, before its trailing white space is trimmed.
Expand(item, tc) ==
    CASE item.ty = "InlineMath" ->
             Replace(tc.inline_math, tc.placeholder,
                     Replace(StyleTemplate(item.style, tc), tc.placeholder, item.src))
      [] item.ty = "DisplayMath" -> Replace(tc.display_math, tc.placeholder, item.src)
      [] OTHER -> item.src

\* The state of the loop: the text so far, the running line counter, the ranges,
\* and (history) the offset and length of each expansion in the text.
AsmState(output, current_line, ls, offs) ==
    [output |-> output, current_line |-> current_line, lines |-> ls, offsets |-> offs]

\* One iteration that forgets the separator line in the running counter.
AsmStepNoSeparator(a, item, tc) ==
    LET expanded == TrimEnd(Expand(item, tc))
        start_line == a.current_line
        end_line == start_line + LinesCount(expanded)
    IN AsmState(a.output \o expanded \o <<"\n", "\n">>,
                end_line,
                Append(a.lines, Range(start_line, end_line)),
                Append(a.offsets, [at |-> Len(a.output), len |-> Len(expanded)]))

AsmStep(a, item, tc) ==
    LET expanded == TrimEnd(Expand(item, tc))
        start_line == a.current_line
        end_line == start_line + LinesCount(expanded)
    IN AsmState(a.output \o expanded \o <<"\n", "\n">>,
                end_line + 1,
                Append(a.lines, Range(start_line, end_line)),
                Append(a.offsets, [at |-> Len(a.output), len |-> Len(expanded)]))

RECURSIVE AsmLoop(_, _, _, _)
AsmLoop(a, frags, tc, i) ==
    IF i > Len(frags) THEN a
    ELSE AsmLoop(AsmStep(a, frags[i], tc), frags, tc, i + 1)

GenerateLatexWithLineMappings(cfg, frags) ==
    LET preamble_trimmed == TrimEnd(cfg.preamble)
        a0 == AsmState(preamble_trimmed \o <<"\n">>,
                       LinesCount(preamble_trimmed) + 1, <<>>, <<>>)
        a == AsmLoop(a0, frags, cfg.template, 1)
    IN [a EXCEPT !.output = @ \o cfg.postamble]

(***************************************************************************)
(* Region reconstruction: the fold of the SyncTeX boxes of a fragment's    *)
(* lines into one Region per page.  Lengths are integers in TeX points.    *)
(***************************************************************************)
TeXBox(page, h, v, width, height, depth) ==
    [page |-> page, h |-> h, v |-> v, width |-> width, height |-> height,
     depth |-> depth]

Region(x_range, y_range, baseline, baseline_width) ==
    [x_range |-> x_range, y_range |-> y_range, baseline |-> baseline,
     baseline_width |-> baseline_width]

NoRegions == [p \in {} |-> 0]

Min2(a, b) == IF a <= b THEN a ELSE b
Max2(a, b) == IF a >= b THEN a ELSE b

\* area <= 1e-6, as area * 10^6 <= 1.
AREA_EPS_INV == 1000000
\* A test that lets every box through.
ZeroAreaNever(tb) == FALSE

ZeroArea(tb) == tb.width * (tb.height + tb.depth) * AREA_EPS_INV <= 1

\* The equality of two boxes (TeXBox: PartialEq, Eq, Hash): every field.
BoxEq(a, b) == a = b

\* A seen-set that is never consulted.
SeenBoxesContainsNever(seen, tb) == FALSE

SeenBoxesContains(seen, tb) == \E s \in seen : BoxEq(s, tb)

\* A fold in which a box as wide as the widest so far takes the baseline over.
FoldBoxLastWidest(regions, tb) ==
    LET x_low == tb.h
        x_high == tb.h + tb.width
        y_low == tb.v - tb.height
        y_high == tb.v + tb.depth
    IN IF tb.page \in DOMAIN regions
       THEN LET r == regions[tb.page]
                wider == tb.width >= r.baseline_width
            IN [regions EXCEPT ![tb.page] =
                   Region(<<Min2(r.x_range[1], x_low), Max2(r.x_range[2], x_high)>>,
                          <<Min2(r.y_range[1], y_low), Max2(r.y_range[2], y_high)>>,
                          IF wider THEN tb.v ELSE r.baseline,
                          IF wider THEN tb.width ELSE r.baseline_width)]
       ELSE [p \in DOMAIN regions \cup {tb.page} |->
                IF p = tb.page
                THEN Region(<<x_low, x_high>>, <<y_low, y_high>>, tb.v, tb.width)
                ELSE regions[p]]

\* regions.entry(tb.page).and_modify(..).or_insert_with(..)
FoldBox(regions, tb) ==
    LET x_low == tb.h
        x_high == tb.h + tb.width
        y_low == tb.v - tb.height
        y_high == tb.v + tb.depth
    IN IF tb.page \in DOMAIN regions
       THEN LET r == regions[tb.page]
                wider == tb.width > r.baseline_width
            IN [regions EXCEPT ![tb.page] =
                   Region(<<Min2(r.x_range[1], x_low), Max2(r.x_range[2], x_high)>>,
                          <<Min2(r.y_range[1], y_low), Max2(r.y_range[2], y_high)>>,
                          IF wider THEN tb.v ELSE r.baseline,
                          IF wider THEN tb.width ELSE r.baseline_width)]
       ELSE [p \in DOMAIN regions \cup {tb.page} |->
                IF p = tb.page
                THEN Region(<<x_low, x_high>>, <<y_low, y_high>>, tb.v, tb.width)
                ELSE regions[p]]

\* The state of the loops over lines and boxes: the regions of the fragment, the
\* run's seen set, and (history) the boxes folded by the current query.
Geo(regions, seen, folded) == [regions |-> regions, seen |-> seen, folded |-> folded]

\* The body of the loop over the boxes of one query.
ProcessBox(g, tb) ==
    IF ZeroArea(tb) THEN g
    ELSE IF SeenBoxesContains(g.seen, tb) THEN g
    ELSE Geo(FoldBox(g.regions, tb), g.seen \cup {tb}, Append(g.folded, tb))

RECURSIVE ProcessQuery(_, _, _)
ProcessQuery(g, boxes, i) ==
    IF i > Len(boxes) THEN g
    ELSE ProcessQuery(ProcessBox(g, boxes[i]), boxes, i + 1)

\* for line in line_range: q[line] is what scanner.query(line) returns.  The
\* result carries the log of the queries made.
RECURSIVE ProcessLines(_, _, _, _, _, _)
ProcessLines(g, log, frag, line, end, q) ==
    IF line >= end THEN [g |-> g, log |-> log]
    ELSE LET g1 == ProcessQuery([g EXCEPT !.folded = <<>>], q[line], 1)
         IN ProcessLines(g1,
                         Append(log, [frag |-> frag, line |-> line, ret |-> q[line],
                                      fold |-> g1.folded]),
                         frag, line + 1, end, q)

\* The keys of the BTreeMap in ascending order.
RECURSIVE SortedPages(_)
SortedPages(ps) ==
    IF ps = {} THEN <<>>
    ELSE LET m == CHOOSE p \in ps : \A o \in ps : p <= o
         IN <<m>> \o SortedPages(ps \ {m})

\* The keys in descending order.
RECURSIVE SortedPagesDescending(_)
SortedPagesDescending(ps) ==
    IF ps = {} THEN <<>>
    ELSE LET m == CHOOSE p \in ps : \A o \in ps : p >= o
         IN <<m>> \o SortedPagesDescending(ps \ {m})

(***************************************************************************)
(* Coordinates.  TEX2SVG_SCALING is 72.0 / 72.27 = 7200 / 7227; an SVG     *)
(* length is held exactly, as a multiple of 1/7227 pt.                     *)
(***************************************************************************)
SCALING_NUM == 7200
SCALING_DEN == 7227

\* tex * TEX2SVG_SCALING + base
Tex2Svg(tex, base) == tex * SCALING_NUM + base * SCALING_DEN
\* an SVG-side quantity (view box, bbox, tolerance, margin) in the same unit
Svg(x) == x * SCALING_DEN

\* {:.2}: the number of hundredths, rounded to the nearest.
Fmt2(v) == ToString((200 * v + SCALING_DEN) \div (2 * SCALING_DEN))

\* svg_utils::refine_y_range
RefineYRange(bboxes, y_min0, y_max0, tol) ==
    LET y_min == y_min0 - tol
        y_max == y_max0 + tol
        hit == {i \in DOMAIN bboxes :
                   Max2(y_min, bboxes[i].top) <= Min2(y_max, bboxes[i].bottom)}
    IN IF hit = {} THEN <<y_min + tol, y_max - tol>>
       ELSE <<CHOOSE t \in {bboxes[i].top : i \in hit} :
                  \A i \in hit : t <= bboxes[i].top,
              CHOOSE b \in {bboxes[i].bottom : i \in hit} :
                  \A i \in hit : b >= bboxes[i].bottom>>

\* the leaf bboxes of a page, in the unit of Tex2Svg
ScaledBboxes(bboxes) ==
    [i \in DOMAIN bboxes |-> [top |-> Svg(bboxes[i].top), bottom |-> Svg(bboxes[i].bottom)]]

(***************************************************************************)
(* Markup.  A text of HTML is a sequence of tokens.                        *)
(***************************************************************************)
\* html_escape::encode_text
RECURSIVE HtmlEscape(_)
HtmlEscape(s) ==
    IF s = <<>> THEN <<>>
    ELSE (CASE s[1] = "<" -> <<"&lt;">>
            [] s[1] = ">" -> <<"&gt;">>
            [] s[1] = "&" -> <<"&amp;">>
            [] OTHER -> <<s[1]>>) \o HtmlEscape(Tail(s))

IMG_OPEN == "<img src=#svgView(viewBox("
DIV_OPEN == "<div class=jl-display-div style=text-align:center;>"
DIV_CLOSE == "</div>"
BR == "<br>"

\* svg_class_names[svg_idx]: derived from the hash of the page's SVG data.
ClassName(svg) == "jl-" \o ToString(svg.hash)

\* One iteration of the loop over the regions: the <img> of one page.
Img(item, cfg, pages, page, r) ==
    LET svg == pages[page]
        x_base == IF cfg.mode = "pdf" THEN svg.view_box[1] ELSE 0
        y_base == IF cfg.mode = "pdf" THEN svg.view_box[2] ELSE 0
        y_t == <<Tex2Svg(r.y_range[1], y_base), Tex2Svg(r.y_range[2], y_base)>>
        x_range == <<Tex2Svg(r.x_range[1], x_base), Tex2Svg(r.x_range[2], x_base)>>
        baseline == Tex2Svg(r.baseline, y_base)
        y_r == IF item.ty \in {"DisplayMath", "RawBlock"}
               THEN RefineYRange(ScaledBboxes(svg.bboxes), y_t[1], y_t[2],
                                 Svg(cfg.y_range_tol))
               ELSE y_t
        y_range == <<y_r[1] - Svg(cfg.y_range_margin), y_r[2] + Svg(cfg.y_range_margin)>>
        depth == IF item.ty = "InlineMath" THEN y_range[2] - baseline ELSE 0
        extra_style ==
            IF item.ty = "InlineMath"
            THEN <<"top:", Fmt2(depth - Svg(cfg.baseline_rise)), "margin-top:",
                   Fmt2(Svg(cfg.baseline_rise) - depth), "position:relative;",
                   "extra_style_inline">>
            ELSE <<"extra_style_display">>
    IN <<IMG_OPEN, Fmt2(x_range[1]), ",", Fmt2(y_range[1]), ",",
         Fmt2(x_range[2] - x_range[1]), ",", Fmt2(y_range[2] - y_range[1]), "))",
         "class=", ClassName(svg),
         IF item.ty = "InlineMath" THEN "jl-inline" ELSE "jl-display",
         "alt=">> \o HtmlEscape(item.src)
       \o <<"style=width:", Fmt2(x_range[2] - x_range[1]), "height:",
            Fmt2(y_range[2] - y_range[1]), "display:inline;">>
       \o extra_style \o <<">">>

\* An order that yields the highest page first.
RegionOrderDescending(regions) == SortedPagesDescending(DOMAIN regions)

\* The order in which regions.into_iter() yields the pages.
RegionOrder(regions) == SortedPages(DOMAIN regions)

\* imgs, one per region.
Imgs(item, cfg, pages, regions) ==
    LET order == RegionOrder(regions)
    IN [n \in DOMAIN order |-> Img(item, cfg, pages, order[n], regions[order[n]])]

RECURSIVE Join(_, _)
Join(parts, sep) ==
    IF parts = <<>> THEN <<>>
    ELSE IF Len(parts) = 1 THEN parts[1]
    ELSE parts[1] \o sep \o Join(Tail(parts), sep)

Html(item, imgs) ==
    IF item.ty = "InlineMath" THEN Join(imgs, <<>>)
    ELSE <<DIV_OPEN>> \o Join(imgs, <<BR>>) \o <<DIV_CLOSE>>

\* A rewrite that makes every node a block.
RawNodeAlwaysBlock(ref, html) == RawBlockHtml(html)

\* The node a back-reference is overwritten with.
RawNode(ref, html) ==
    IF ref.kind = "Inline" THEN RawInlineHtml(html) ELSE RawBlockHtml(html)

RECURSIVE RewriteRefs(_, _, _, _)

\* A rewrite that stops after the first back-reference.
RewriteRefsFirstOnly(t, refs, html, i) ==
    IF i > Len(refs) \/ i > 1 THEN t
    ELSE ReplaceAt(t, refs[i].path, RawNode(refs[i], html))

\* for node in item.refs.iter_mut(): **node = ..
RewriteRefs(t, refs, html, i) ==
    IF i > Len(refs) THEN t
    ELSE RewriteRefs(ReplaceAt(t, refs[i].path, RawNode(refs[i], html)),
                     refs, html, i + 1)

(***************************************************************************)
(* Pandoc documents: the constructors of the node shapes of the JSON AST.  *)
(***************************************************************************)
Attr == JArr(<<JStr(<<>>), JArr(<<>>), JArr(<<>>)>>)
StrN(s) == JObj("Str", JStr(s))
MathI(src) == JObj("Math", JArr(<<JTag("InlineMath"), JStr(src)>>))
MathD(src) == JObj("Math", JArr(<<JTag("DisplayMath"), JStr(src)>>))
EmphN(inls) == JObj("Emph", JArr(inls))
StrongN(inls) == JObj("Strong", JArr(inls))
UnderlineN(inls) == JObj("Underline", JArr(inls))
StrikeoutN(inls) == JObj("Strikeout", JArr(inls))
SuperscriptN(inls) == JObj("Superscript", JArr(inls))
LinkN(inls) == JObj("Link", JArr(<<Attr, JArr(inls), JArr(<<JStr(<<"u">>), JStr(<<>>)>>)>>))
ImageN(inls) == JObj("Image", JArr(<<Attr, JArr(inls), JArr(<<JStr(<<"u">>), JStr(<<>>)>>)>>))
SpanN(inls) == JObj("Span", JArr(<<Attr, JArr(inls)>>))
QuotedN(inls) == JObj("Quoted", JArr(<<JTag("DoubleQuote"), JArr(inls)>>))
NoteN(blocks) == JObj("Note", JArr(blocks))

Para(inls) == JObj("Para", JArr(inls))
PlainB(inls) == JObj("Plain", JArr(inls))
HeaderB(level, inls) == JObj("Header", JArr(<<JNum(level), Attr, JArr(inls)>>))
LineBlock(inls) == JObj("LineBlock", JArr(<<JArr(inls)>>))
RawBlockN(format, text) == JObj("RawBlock", JArr(<<JStr(format), JStr(text)>>))
BlockQuote(blocks) == JObj("BlockQuote", JArr(blocks))
BulletList(blocks) == JObj("BulletList", JArr(<<JArr(blocks)>>))
OrderedList(blocks) ==
    JObj("OrderedList",
         JArr(<<JArr(<<JNum(1), JTag("Decimal"), JTag("Period")>>), JArr(<<JArr(blocks)>>)>>))
Div(blocks) == JObj("Div", JArr(<<Attr, JArr(blocks)>>))
DefinitionList(blocks) ==
    JObj("DefinitionList", JArr(<<JArr(<<JArr(<<>>), JArr(<<JArr(blocks)>>)>>)>>))

Cell(blocks) == JArr(<<Attr, JTag("AlignDefault"), JNum(1), JNum(1), JArr(blocks)>>)
Row(blocks) == JArr(<<Attr, JArr(<<Cell(blocks)>>)>>)
RowsOf(blocks) == IF blocks = <<>> THEN JArr(<<>>) ELSE JArr(<<Row(blocks)>>)
\* A Table with the given blocks in its caption, head, body and foot cells.
Table(caption, head, body, foot) ==
    JObj("Table",
         JArr(<<Attr,
                JArr(<<JNull, JArr(caption)>>),
                JArr(<<>>),
                JArr(<<Attr, RowsOf(head)>>),
                JArr(<<JArr(<<Attr, JNum(0), JArr(<<>>), RowsOf(body)>>)>>),
                JArr(<<Attr, RowsOf(foot)>>)>>))

Doc(blocks) == JObj("Pandoc", JArr(blocks))

(***************************************************************************)
(* Configuration.                                                          *)
(***************************************************************************)
PLACEHOLDER == "@"

Template(inline_math, display_math) ==
    [placeholder |-> PLACEHOLDER,
     inline_math |-> inline_math,
     inline_math_inner |-> <<PLACEHOLDER>>,
     display_math |-> display_math,
     header |-> [l \in 1 .. 6 |-> <<"H", "{", PLACEHOLDER, "}">>],
     quote |-> <<"Q", "{", PLACEHOLDER, "}">>,
     strong |-> <<"S", "{", PLACEHOLDER, "}">>,
     emph |-> <<"E", "{", PLACEHOLDER, "}">>]

DefaultTemplate == Template(<<"(", PLACEHOLDER, ")">>, <<"[", PLACEHOLDER, "]">>)
\* display math on lines of its own: the expansion spans three lines or more
TallTemplate == Template(<<"(", PLACEHOLDER, ")">>, <<"[", "\n", PLACEHOLDER, "\n", "]">>)

Config(mode, preamble, template, output_folder) ==
    [mode |-> mode, preamble |-> preamble, postamble |-> <<"e", "n", "d", "\n">>,
     template |-> template, output_folder |-> output_folder,
     y_range_tol |-> 1, y_range_margin |-> 1, baseline_rise |-> 0]

PREAMBLE == <<"p", "\n", "b", "\n">>
DefaultConfig == Config("pdf", PREAMBLE, DefaultTemplate, FALSE)

(***************************************************************************)
(* The run: main and render_with_latex, one action per stage.              *)
(***************************************************************************)
NoOutput == JNull

\* The sequences of at most MaxQueryLen boxes a query can return.
QueryResults(boxes) == UNION {[1 .. n -> boxes] : n \in 0 .. MaxQueryLen}

SUBPROCESSES == {"latex", "dvipdfm", "dvisvgm"}

\* A failure that lets the run go on to its end.
FailedIgnored(e) == pc' = "rendered" /\ err' = e

\* bail!, or ? on an Err: render_with_latex returns the error and main ends.
Failed(e) == pc' = "failed" /\ err' = e

\* walk_and_create_final_node, called first by render_with_latex.
Walk ==
    /\ UNCHANGED <<arg, ret>>
    /\ pc = "start"
    /\ LET w == WalkAndCreateFinalNode(tree)
       IN /\ tree' = w.tree
          /\ final_node' = w.final
          /\ fragments' = w.st.frags
          /\ err' = w.st.err
          /\ pc' = IF w.st.err = NoError THEN "walked" ELSE "failed"
    /\ UNCHANGED <<config, input, visited, source_str, lines, offsets, env, svgs,
                   seen_boxes, idx, qlog, rendered, externals, out>>

\* An early return that comes after the working directory is made.
NoFragmentsAfterDirectory ==
    /\ UNCHANGED <<arg, ret>>
    /\ pc = "walked"
    /\ fragments = <<>>
    /\ tree' = ReplaceAt(tree, final_node, RawBlockHtml(<<>>))
    /\ externals' = Append(externals, "mkdir")
    /\ pc' = "rendered"
    /\ UNCHANGED <<config, input, final_node, fragments, visited, source_str, lines, offsets,
                   env, svgs, seen_boxes, idx, qlog, rendered, err, out>>

\* if self.fragments.is_empty(): make the final node a dummy and return.
NoFragments ==
    /\ UNCHANGED <<arg, ret>>
    /\ pc = "walked"
    /\ fragments = <<>>
    /\ tree' = ReplaceAt(tree, final_node, RawBlockHtml(<<>>))
    /\ pc' = "rendered"
    /\ UNCHANGED <<config, input, final_node, fragments, visited, source_str, lines, offsets,
                   env, svgs, seen_boxes, idx, qlog, rendered, externals, err>>
    /\ UNCHANGED out

\* The source is generated, the working directory made (a temporary one unless
\* an output folder is configured) and source.tex written; either can fail.
Assemble ==
    /\ UNCHANGED <<arg, ret>>
    /\ pc = "walked"
    /\ fragments # <<>>
    /\ LET a == GenerateLatexWithLineMappings(config, fragments)
       IN /\ source_str' = a.output
          /\ lines' = a.lines
          /\ offsets' = a.offsets
    /\ \E io \in {"ok", "no directory", "no file"} :
          /\ externals' = externals
                 \o (IF config.output_folder \/ io = "no directory" THEN <<>>
                     ELSE <<"mkdir">>)
                 \o (IF io = "ok" THEN <<"write source.tex">> ELSE <<>>)
          /\ IF io = "ok" THEN pc' = "assembled" /\ err' = err
             ELSE Failed(Error("io", io, <<>>))
    /\ UNCHANGED <<config, input, tree, final_node, fragments, visited, env, svgs, seen_boxes,
                   idx, qlog, rendered, out>>

\* The compiler: it may fail to start, or exit with a status.
RunLatex ==
    /\ UNCHANGED <<arg, ret>>
    /\ pc = "assembled"
    /\ \E res \in {"exit 0", "exit 1", "not started"} :
          /\ externals' = IF res = "not started" THEN externals
                          ELSE Append(externals, "latex")
          /\ IF res = "exit 0" THEN pc' = "compiled" /\ err' = err
             ELSE Failed(Error("latex", res, <<>>))
    /\ UNCHANGED <<config, input, tree, final_node, fragments, visited, source_str, lines,
                   offsets, env, svgs, seen_boxes, idx, qlog, rendered, out>>

\* In dvi mode dvipdfm is run on the page file; its exit status is not read.
RunDvipdfm ==
    /\ UNCHANGED <<arg, ret>>
    /\ pc = "compiled"
    /\ config.mode = "dvi"
    /\ \E res \in {"exit 0", "exit 1", "not started"} :
          /\ externals' = IF res = "not started" THEN externals
                          ELSE Append(externals, "dvipdfm")
          /\ IF res # "not started" THEN pc' = "dvipdfm done" /\ err' = err
             ELSE Failed(Error("dvipdfm", res, <<>>))
    /\ UNCHANGED <<config, input, tree, final_node, fragments, visited, source_str, lines,
                   offsets, env, svgs, seen_boxes, idx, qlog, rendered, out>>

\* The converter, then split_svgs and parse_to_tree of what it printed.
RunDvisvgm ==
    /\ UNCHANGED <<arg, ret>>
    /\ \/ pc = "compiled" /\ config.mode # "dvi"
       \/ pc = "dvipdfm done"
    /\ \E res \in {"exit 0", "exit 1", "not started", "unparsable"} :
          /\ externals' = IF res = "not started" THEN externals
                          ELSE Append(externals, "dvisvgm")
          /\ IF res = "exit 0"
             THEN /\ pc' = "converted"
                  /\ err' = err
                  /\ svgs' \in env.svgs
             ELSE /\ Failed(Error("dvisvgm", res, <<>>))
                  /\ svgs' = svgs
    /\ UNCHANGED <<config, input, tree, final_node, fragments, visited, source_str, lines,
                   offsets, env, seen_boxes, idx, qlog, rendered, out>>

\* What one fragment's iteration of the render loop leaves behind.
Rendered(silent, regions, order, html) ==
    [silent |-> silent, regions |-> regions, order |-> order, html |-> html]

\* A check that lets an inline fragment span pages.
RegionErrorNoPageCheck(item, regions, pages) ==
    IF DOMAIN regions = {} THEN Error("no boxes", "", item.src)
    ELSE IF \E p \in DOMAIN regions : p \notin DOMAIN pages
    THEN Panic("svgs[svg_idx]")
    ELSE NoError

\* The two bail! after the loop over the lines, and the panic of indexing the
\* pages with a page number dvisvgm printed no SVG for.
RegionError(item, regions, pages) ==
    IF DOMAIN regions = {} THEN Error("no boxes", "", item.src)
    ELSE IF item.ty = "InlineMath" /\ Cardinality(DOMAIN regions) > 1
    THEN Error("spans multiple pages", "", item.src)
    ELSE IF \E p \in DOMAIN regions : p \notin DOMAIN pages
    THEN Panic("svgs[svg_idx]")
    ELSE NoError

\* One iteration of the loop over the fragments and their line ranges.
ProcessFragment ==
    /\ UNCHANGED <<arg, ret>>
    /\ pc = "converted"
    /\ idx < Len(fragments)
    /\ LET i == idx + 1
           item == fragments[i]
           line_range == lines[i]
       IN IF item.ty = "DontShow"
          THEN /\ tree' = RewriteRefs(tree, item.refs, <<>>, 1)
               /\ rendered' = Append(rendered, Rendered(TRUE, NoRegions, <<>>, <<>>))
               /\ idx' = i
               /\ UNCHANGED <<pc, err, seen_boxes, qlog>>
          ELSE \E q \in [LinesOfRange(line_range) -> QueryResults(env.boxes)] :
                  LET res == ProcessLines(Geo(NoRegions, seen_boxes, <<>>), qlog, i,
                                          line_range.start, line_range.end, q)
                      regions == res.g.regions
                      html == Html(item, Imgs(item, config, svgs, regions))
                  IN /\ seen_boxes' = res.g.seen
                     /\ qlog' = res.log
                     /\ IF RegionError(item, regions, svgs) # NoError
                        THEN /\ Failed(RegionError(item, regions, svgs))
                             /\ UNCHANGED <<tree, rendered, idx>>
                        ELSE /\ tree' = RewriteRefs(tree, item.refs, html, 1)
                             /\ rendered' = Append(rendered,
                                    Rendered(FALSE, regions, RegionOrder(regions), html))
                             /\ idx' = i
                             /\ UNCHANGED <<pc, err>>
    /\ UNCHANGED <<config, input, final_node, fragments, visited, source_str, lines, offsets,
                   env, svgs, externals, out>>

\* One worker of the script per page, named after the class of the page.
RECURSIVE DecompressScript(_, _)
DecompressScript(pages, i) ==
    IF i > Len(pages) THEN <<>>
    ELSE <<"worker", ToString(i), ClassName(pages[i])>> \o DecompressScript(pages, i + 1)

\* After the loop: each page is (optimized and) compressed, and the final node
\* receives the script.
Finalize ==
    /\ UNCHANGED <<arg, ret>>
    /\ pc = "converted"
    /\ idx = Len(fragments)
    /\ \E res \in {"ok", "compression failed"} :
          IF res = "ok"
          THEN /\ tree' = ReplaceAt(tree, final_node,
                              RawBlockHtml(<<"<script>">> \o DecompressScript(svgs, 1)
                                           \o <<"</script>">>))
               /\ pc' = "rendered"
               /\ err' = err
          ELSE /\ Failed(Error("lzma", res, <<>>))
               /\ tree' = tree
    /\ UNCHANGED <<config, input, final_node, fragments, visited, source_str, lines, offsets,
                   env, svgs, seen_boxes, idx, qlog, rendered, externals, out>>

\* main: the tree is serialized and written once render_with_latex returned Ok.
WriteOutput ==
    /\ UNCHANGED <<arg, ret>>
    /\ pc = "rendered"
    /\ out' = tree
    /\ pc' = "done"
    /\ UNCHANGED <<config, input, tree, final_node, fragments, visited, source_str, lines,
                   offsets, env, svgs, seen_boxes, idx, qlog, rendered, externals, err>>

Next ==
    \/ Walk
    \/ NoFragments
    \/ Assemble
    \/ RunLatex
    \/ RunDvipdfm
    \/ RunDvisvgm
    \/ ProcessFragment
    \/ Finalize
    \/ WriteOutput

\* The state before the run of a document under a configuration, in a world
\* whose typeset pages can hold the boxes and SVG pages of e.
InitAt(p, doc, cfg, e) ==
    /\ pc = p
    /\ config = cfg
    /\ input = doc
    /\ tree = doc
    /\ final_node = <<>>
    /\ fragments = <<>>
    /\ visited = <<>>
    /\ source_str = <<>>
    /\ lines = <<>>
    /\ offsets = <<>>
    /\ env = e
    /\ svgs = <<>>
    /\ seen_boxes = {}
    /\ idx = 0
    /\ qlog = <<>>
    /\ rendered = <<>>
    /\ externals = <<>>
    /\ err = NoError
    /\ out = NoOutput
    /\ arg = NoCall
    /\ ret = NoCall

InitRun(doc, cfg, e) == InitAt("start", doc, cfg, e)

(***************************************************************************)
(* The worlds and the documents of the checked runs.                       *)
(***************************************************************************)
T_a == <<"a">>
T_a_spaced == <<" ", "a", " ">>
T_b == <<"b">>
T_two_lines == <<"a", "\n", "b">>
T_blank == <<" ", "\n">>
T_raw == <<"%", "r", "a", "w", " ", "a">>
T_dontshow == <<"%", "d", "o", "n", "t", "s", "h", "o", "w", " ", "d">>

BoxZero == TeXBox(1, 0, 10, 0, 5, 2)
BoxA == TeXBox(1, 0, 10, 2, 5, 2)
BoxWide == TeXBox(1, 3, 12, 4, 6, 1)
BoxPage2 == TeXBox(2, 1, 20, 2, 5, 2)
BoxTie == TeXBox(1, 5, 14, 2, 1, 1)

SvgPage(hash, view_box, bboxes) ==
    [hash |-> hash, view_box |-> view_box, bboxes |-> bboxes]
Bbox(top, bottom) == [top |-> top, bottom |-> bottom]
TwoPages ==
    <<SvgPage(1, <<-1, -2>>, <<Bbox(1, 11), Bbox(40, 50)>>),
      SvgPage(2, <<0, 0>>, <<Bbox(60, 70)>>)>>

Env(boxes, pages) == [boxes |-> boxes, svgs |-> pages]
GeoEnv == Env({BoxZero, BoxA, BoxWide, BoxPage2}, {TwoPages})
DocEnv == Env({BoxA, BoxPage2}, {TwoPages})

\* The documents of the runs that exercise the geometry.
GeoDocs ==
    {Doc(<<Para(<<MathI(T_a)>>)>>),
     Doc(<<Para(<<MathI(T_a), StrN(T_b), MathI(T_a_spaced)>>), RawBlockN(TEX, T_b)>>),
     Doc(<<Para(<<MathD(T_a)>>), HeaderB(1, <<MathI(T_a)>>)>>),
     Doc(<<Para(<<MathI(T_a), MathI(T_b)>>)>>),
     Doc(<<Para(<<MathD(T_a), MathD(T_a)>>)>>),
     Doc(<<RawBlockN(TEX, T_two_lines)>>),
     Doc(<<RawBlockN(TEX, T_dontshow), Para(<<MathD(T_dontshow), MathI(T_a)>>)>>),
     Doc(<<Para(<<MathD(T_raw)>>), RawBlockN(TEX, T_a)>>),
     Doc(<<RawBlockN(TEX, T_blank)>>),
     Doc(<<Para(<<StrN(T_a)>>), RawBlockN(HTML, T_a)>>),
     Doc(<<Para(<<MathI(T_a), MathD(T_dontshow)>>), RawBlockN(TEX, T_dontshow)>>),
     Doc(<<Para(<<MathI(T_a)>>), JObj("Para", JStr(T_a))>>),
     Doc(<<Para(<<MathI(T_a)>>), RawBlockN(TEX, T_b), Para(<<MathI(T_a_spaced)>>)>>),
     Doc(<<Para(<<MathI(T_a), MathD(T_dontshow), MathI(T_a)>>)>>)}

\* A page with two boxes of one width and a wider one.
BaselineEnv == Env({BoxA, BoxTie, BoxWide}, {TwoPages})

GeoRuns ==
    {[doc |-> d, cfg |-> DefaultConfig, env |-> GeoEnv] : d \in GeoDocs}
    \cup {[doc |-> Doc(<<Para(<<MathI(T_a)>>)>>),
           cfg |-> Config(m, PREAMBLE, DefaultTemplate, TRUE), env |-> GeoEnv] :
              m \in {"dvi", "xdv"}}
    \cup {[doc |-> Doc(<<Para(<<MathD(T_a)>>)>>), cfg |-> DefaultConfig, env |-> BaselineEnv]}

Init == \E r \in GeoRuns : InitRun(r.doc, r.cfg, r.env)

Spec == Init /\ [][Next]_vars

(***************************************************************************)
(* Fragment collection alone: add_fragment applied to the nodes the walk   *)
(* hands it, in any order.  Each visit is of a fresh node of the tree and  *)
(* goes through the arm of walk_inline or walk_block for its kind.         *)
(***************************************************************************)
VisitStyles ==
    {Plain, <<Header(1)>>, <<Emph>>, <<Quote, Emph>>, <<Emph, Quote>>}

IsInlineMath(node) == node.t = "Math" /\ Get(C(node), 0).t = "InlineMath"
SourceOf(node) == Get(C(node), 1).s

Visits ==
    {[node |-> MathI(t), style |-> st] : t \in {T_a, T_a_spaced, T_b}, st \in VisitStyles}
    \cup {[node |-> n, style |-> Plain] :
              n \in {MathD(T_a), MathD(T_raw), MathD(T_dontshow), RawBlockN(TEX, T_a)}}

Visit ==
    /\ UNCHANGED <<arg, ret>>
    /\ pc = "collect"
    /\ Len(visited) < MaxVisits
    /\ \E v \in Visits :
          LET path == <<Len(visited) + 1>>
              st == WalkState(fragments, NoError)
              after == IF v.node.t = "Math" THEN WalkInline(v.node, path, v.style, st)
                       ELSE WalkBlock(v.node, path, v.style, st)
          IN /\ fragments' = after.frags
             /\ visited' = Append(visited, [node |-> v.node, style |-> v.style,
                                            path |-> path])
    /\ UNCHANGED <<pc, config, input, tree, final_node, source_str, lines, offsets, env, svgs,
                   seen_boxes, idx, qlog, rendered, externals, err, out>>

InitCollect == InitAt("collect", JNull, DefaultConfig, Env({}, {}))
NextCollect == Visit
SpecCollect == InitCollect /\ [][NextCollect]_vars

\* The visits of inline-math nodes, and the (trimmed source, Style) of one.
InlineVisits == {n \in DOMAIN visited : IsInlineMath(visited[n].node)}
KeyOf(n) == <<Trim(SourceOf(visited[n].node)), visited[n].style>>
\* The fragments holding a back-reference to the node of visit n.
HoldersOf(n) ==
    {i \in DOMAIN fragments :
        \E j \in DOMAIN fragments[i].refs : fragments[i].refs[j].path = visited[n].path}
InlineFragments == {i \in DOMAIN fragments : fragments[i].ty = "InlineMath"}

\* C1: the inline-math nodes of equal trimmed source and equal Style are all in
\* one Fragment, which has exactly one back-reference per such node, and there
\* are as many inline-math Fragments as distinct (trimmed source, Style) pairs.
C1_InlineDedup ==
    pc = "collect" =>
      /\ \A n \in InlineVisits :
            LET same == {m \in InlineVisits : KeyOf(m) = KeyOf(n)}
                frs == {i \in InlineFragments :
                           <<fragments[i].src, fragments[i].style>> = KeyOf(n)}
            IN /\ Cardinality(frs) = 1
               /\ \A i \in frs :
                     /\ Len(fragments[i].refs) = Cardinality(same)
                     /\ \A m \in same : HoldersOf(m) = {i}
                     /\ \A j \in DOMAIN fragments[i].refs :
                           /\ fragments[i].refs[j].kind = "Inline"
                           /\ \E m \in same : visited[m].path = fragments[i].refs[j].path
      /\ Cardinality(InlineFragments) = Cardinality({KeyOf(n) : n \in InlineVisits})

\* Three inline-math nodes were visited, two of them with the same trimmed source
\* (written differently) and the same non-plain Style, and they were merged.
C1_Witness ==
    /\ pc = "collect"
    /\ \E n, m \in InlineVisits :
          /\ n # m
          /\ KeyOf(n) = KeyOf(m)
          /\ SourceOf(visited[n].node) # SourceOf(visited[m].node)
          /\ visited[n].style # Plain
    /\ Cardinality(InlineVisits) = 3
    /\ \E i \in InlineFragments : Len(fragments[i].refs) = 2
    /\ Cardinality(InlineFragments) = 2

\* C2: two visited nodes share a Fragment only if both are inline math of equal
\* trimmed source and equal Style (the same elements in the same order); every
\* other node has a Fragment of its own with that one back-reference.
C2_NoOtherMerge ==
    pc = "collect" =>
      /\ \A n, m \in DOMAIN visited :
            (n # m /\ HoldersOf(n) \cap HoldersOf(m) # {}) =>
                /\ n \in InlineVisits
                /\ m \in InlineVisits
                /\ Trim(SourceOf(visited[n].node)) = Trim(SourceOf(visited[m].node))
                /\ Len(visited[n].style) = Len(visited[m].style)
                /\ \A k \in DOMAIN visited[n].style :
                      visited[n].style[k] = visited[m].style[k]
      /\ \A n \in DOMAIN visited \ InlineVisits :
            \E i \in DOMAIN fragments :
               /\ HoldersOf(n) = {i}
               /\ Len(fragments[i].refs) = 1
               /\ fragments[i].ty # "InlineMath"

\* A display-math node with the text of an earlier inline fragment, and two
\* inline-math nodes of that text under Quote-then-Emph and Emph-then-Quote:
\* three Fragments of one back-reference each.
C2_Witness ==
    /\ pc = "collect"
    /\ Len(visited) = 3
    /\ \E n, m \in InlineVisits :
          /\ visited[n].style = <<Quote, Emph>>
          /\ visited[m].style = <<Emph, Quote>>
          /\ KeyOf(n)[1] = KeyOf(m)[1]
          /\ \E d \in DOMAIN visited \ InlineVisits :
                /\ d > n
                /\ Trim(SourceOf(visited[d].node)) = KeyOf(n)[1]
    /\ Len(fragments) = 3
    /\ \A i \in DOMAIN fragments : Len(fragments[i].refs) = 1

(***************************************************************************)
(* Source assembly alone: generate_latex_with_line_mappings applied to the *)
(* fragment list of any short sequence of visits, under several preambles  *)
(* and templates.                                                          *)
(***************************************************************************)
T_blank_line_inside == <<"a", "\n", "\n", "b">>

AsmVisits ==
    {[node |-> MathI(T_a), style |-> Plain],
     [node |-> MathD(T_two_lines), style |-> Plain],
     [node |-> RawBlockN(TEX, T_blank), style |-> Plain],
     [node |-> RawBlockN(TEX, T_blank_line_inside), style |-> Plain],
     [node |-> MathD(T_dontshow), style |-> Plain]}

\* The fragment list after the visits vs, the n-th at path <<n>>.
RECURSIVE CollectFrom(_, _, _)
CollectFrom(frags, vs, n) ==
    IF n > Len(vs) THEN frags
    ELSE LET st == WalkState(frags, NoError)
             after == IF vs[n].node.t = "Math"
                      THEN WalkInline(vs[n].node, <<n>>, vs[n].style, st)
                      ELSE WalkBlock(vs[n].node, <<n>>, vs[n].style, st)
         IN CollectFrom(after.frags, vs, n + 1)

AsmFragmentLists ==
    {CollectFrom(<<>>, vs, 1) : vs \in UNION {[1 .. n -> AsmVisits] : n \in 0 .. MaxAsmVisits}}

AsmPreambles ==
    {<<>>, T_blank, <<"p">>, <<"p", "\n", "\n">>, <<"p", "\n", "q">>}

AsmConfigs ==
    {Config("pdf", pre, tpl, FALSE) : pre \in AsmPreambles,
                                      tpl \in {DefaultTemplate, TallTemplate}}

InitAssemble ==
    \E cfg \in AsmConfigs, frags \in AsmFragmentLists :
       /\ pc = "assemble"
       /\ config = cfg
       /\ fragments = frags
       /\ input = JNull /\ tree = JNull /\ final_node = <<>> /\ visited = <<>> /\ source_str = <<>>
       /\ lines = <<>> /\ offsets = <<>> /\ env = Env({}, {}) /\ svgs = <<>>
       /\ seen_boxes = {} /\ idx = 0 /\ qlog = <<>> /\ rendered = <<>>
       /\ externals = <<>> /\ err = NoError /\ out = NoOutput
       /\ arg = NoCall /\ ret = NoCall

GenerateOnly ==
    /\ UNCHANGED <<arg, ret>>
    /\ pc = "assemble"
    /\ LET a == GenerateLatexWithLineMappings(config, fragments)
       IN /\ source_str' = a.output
          /\ lines' = a.lines
          /\ offsets' = a.offsets
    /\ pc' = "assembled"
    /\ UNCHANGED <<config, input, tree, final_node, fragments, visited, env, svgs, seen_boxes,
                   idx, qlog, rendered, externals, err, out>>

NextAssemble == GenerateOnly
SpecAssemble == InitAssemble /\ [][NextAssemble]_vars

\* The 1-based number of the line of text on which its pos-th character lies.
LineAt(text, pos) == 1 + NewLines(SubSeq(text, 1, pos - 1))

\* The offsets recorded for fragment i delimit its trimmed expansion in the text.
ExpansionAt(i) ==
    SubSeq(source_str, offsets[i].at + 1, offsets[i].at + offsets[i].len)
        = TrimEnd(Expand(fragments[i], config.template))

\* C3: the line range of each fragment is exactly the lines of the source text
\* on which its expansion lies: line start is the first line of the expansion and
\* line end - 1 its last (and the range is empty when the expansion is).
C3_LineRangesExact ==
    pc = "assembled" =>
      \A i \in DOMAIN fragments :
         /\ ExpansionAt(i)
         /\ IF offsets[i].len = 0 THEN lines[i].start = lines[i].end
            ELSE /\ lines[i].start = LineAt(source_str, offsets[i].at + 1)
                 /\ lines[i].end - 1 = LineAt(source_str, offsets[i].at + offsets[i].len)

\* C4: one range per fragment, in the order of the list; each range ends one
\* line before the next one starts, and no two ranges overlap.
C4_RangesContiguous ==
    pc = "assembled" =>
      /\ Len(lines) = Len(fragments)
      /\ \A i \in DOMAIN lines : lines[i].start <= lines[i].end
      /\ \A i \in 1 .. (Len(lines) - 1) : lines[i].end = lines[i + 1].start - 1
      /\ \A i, j \in DOMAIN lines :
            i < j => LinesOfRange(lines[i]) \cap LinesOfRange(lines[j]) = {}

\* Three fragments were assembled, a silent one and one of several lines among
\* them.
C4_Witness ==
    /\ pc = "assembled"
    /\ Len(fragments) = 3
    /\ Len(lines) = 3
    /\ \E i \in DOMAIN fragments : fragments[i].ty = "DontShow"
    /\ \E i \in 1 .. 2 : lines[i].end - lines[i].start >= 2

(***************************************************************************)
(* Properties of the render loop, read off the log of the queries (qlog)   *)
(* and what each completed fragment left behind (rendered).                *)
(***************************************************************************)
\* The queries made for fragment i, and the boxes query n returned.
EntriesOf(i) == {n \in DOMAIN qlog : qlog[n].frag = i}
Returned(n) == {qlog[n].ret[k] : k \in DOMAIN qlog[n].ret}
HasArea(b) == b.width * (b.height + b.depth) * 1000000 > 1

\* The surviving boxes of fragment i: returned for one of its lines, of positive
\* area, and returned for no line of an earlier fragment.
FirstTimeBoxes(i) ==
    {b \in UNION {Returned(n) : n \in EntriesOf(i)} :
        /\ HasArea(b)
        /\ \A m \in DOMAIN qlog : qlog[m].frag < i => b \notin Returned(m)}
SurvivingPages(i) == {b.page : b \in FirstTimeBoxes(i)}

Count(s, tok) == Cardinality({k \in DOMAIN s : s[k] = tok})
GeometryErrors == {"no boxes", "spans multiple pages"}
IsBlockLike(i) == fragments[i].ty \in {"DisplayMath", "RawBlock"}

\* C5: a non-silent fragment none of whose lines has a surviving box, and an
\* inline-math fragment with surviving boxes on several pages, fail the run with
\* an error naming the fragment's source; so a rendered inline-math fragment has
\* exactly one Region and one image reference.
C5_GeometryFailures ==
    /\ \A i \in 1 .. idx :
          fragments[i].ty # "DontShow" =>
             /\ {qlog[n].line : n \in EntriesOf(i)} = LinesOfRange(lines[i])
             /\ FirstTimeBoxes(i) # {}
             /\ fragments[i].ty = "InlineMath" =>
                   /\ Cardinality(SurvivingPages(i)) = 1
                   /\ Cardinality(DOMAIN rendered[i].regions) = 1
                   /\ Count(rendered[i].html, IMG_OPEN) = 1
    /\ (pc = "failed" /\ err.kind \in GeometryErrors) =>
          /\ err.src = fragments[idx + 1].src
          /\ out = NoOutput
          /\ err.kind = "no boxes" => FirstTimeBoxes(idx + 1) = {}
          /\ err.kind = "spans multiple pages" =>
                /\ fragments[idx + 1].ty = "InlineMath"
                /\ Cardinality(SurvivingPages(idx + 1)) > 1

\* The second of two inline-math fragments failed for lack of boxes although its
\* line returned one: the box had been consumed by the first, which was rendered.
C5_Witness ==
    /\ pc = "failed"
    /\ err.kind = "no boxes"
    /\ idx = 1
    /\ fragments[1].ty = "InlineMath"
    /\ fragments[2].ty = "InlineMath"
    /\ \E n \in EntriesOf(2) : \E b \in Returned(n) : HasArea(b)

\* The tokens of a markup text that give it its structure.
Structure(html) ==
    SelectSeq(html, LAMBDA t : t \in {DIV_OPEN, DIV_CLOSE, BR, IMG_OPEN})
\* k images joined by line breaks inside one block container.
StackedImages(k) ==
    [n \in 1 .. (2 * k + 1) |->
        IF n = 1 THEN DIV_OPEN
        ELSE IF n = 2 * k + 1 THEN DIV_CLOSE
        ELSE IF n % 2 = 0 THEN IMG_OPEN ELSE BR]
\* The class names of the images of a markup text, in order.
RECURSIVE ClassesOf(_)
ClassesOf(html) ==
    IF Len(html) < 2 THEN <<>>
    ELSE IF html[1] = "class=" THEN <<html[2]>> \o ClassesOf(Tail(Tail(html)))
    ELSE ClassesOf(Tail(html))
\* The pages ps in ascending order.
Ascending(ps) ==
    CHOOSE s \in [1 .. Cardinality(ps) -> ps] :
        \A a, b \in 1 .. Cardinality(ps) : a < b => s[a] < s[b]

\* C6: a display-math or raw-block fragment with surviving boxes on k pages is
\* rendered, with one Region per page and k image references in ascending page
\* order, joined by line breaks inside one centered block container.
C6_StackedPages ==
    /\ \A i \in 1 .. idx :
          IsBlockLike(i) =>
             LET ps == SurvivingPages(i)
                 k == Cardinality(ps)
             IN /\ k >= 1
                /\ DOMAIN rendered[i].regions = ps
                /\ Structure(rendered[i].html) = StackedImages(k)
                /\ ClassesOf(rendered[i].html)
                       = [n \in 1 .. k |-> ClassName(svgs[Ascending(ps)[n]])]
    /\ (pc = "failed" /\ err.kind \in GeometryErrors /\ IsBlockLike(idx + 1)) =>
          FirstTimeBoxes(idx + 1) = {}

\* A display-math fragment was rendered on two pages although the query returned
\* the box of page 2 before the box of page 1.
C6_Witness ==
    \E i \in 1 .. idx :
       /\ fragments[i].ty = "DisplayMath"
       /\ SurvivingPages(i) = {1, 2}
       /\ \E n \in EntriesOf(i) : qlog[n].ret = <<BoxPage2, BoxA>>
       /\ Count(rendered[i].html, IMG_OPEN) = 2

\* The hull of a non-empty set of boxes.
HullX(bs) ==
    <<CHOOSE lo \in {b.h : b \in bs} : \A b \in bs : lo <= b.h,
      CHOOSE hi \in {b.h + b.width : b \in bs} : \A b \in bs : hi >= b.h + b.width>>
HullY(bs) ==
    <<CHOOSE lo \in {b.v - b.height : b \in bs} : \A b \in bs : lo <= b.v - b.height,
      CHOOSE hi \in {b.v + b.depth : b \in bs} : \A b \in bs : hi >= b.v + b.depth>>

\* C7: a box is folded into a Region only by the first query of the run that
\* returns it, and once; the Regions of a fragment are built from the boxes that
\* no earlier fragment's query returned.
C7_BoxDedup ==
    /\ \A n \in DOMAIN qlog :
          \A k \in DOMAIN qlog[n].fold :
             LET b == qlog[n].fold[k]
             IN /\ b \in Returned(n)
                /\ \A m \in 1 .. (n - 1) : b \notin Returned(m)
                /\ \A k2 \in DOMAIN qlog[n].fold : k2 # k => qlog[n].fold[k2] # b
                /\ b \in seen_boxes
    /\ \A i \in 1 .. idx :
          \A p \in DOMAIN rendered[i].regions :
             LET bs == {b \in FirstTimeBoxes(i) : b.page = p}
             IN /\ bs # {}
                /\ rendered[i].regions[p].x_range = HullX(bs)
                /\ rendered[i].regions[p].y_range = HullY(bs)

\* The second fragment's line returned a box the first fragment had consumed, next
\* to a new one; its Region is the new box alone.  And a query returned the same
\* box twice.
C7_Witness ==
    /\ idx = 2
    /\ \E n \in EntriesOf(1), m \in EntriesOf(2) :
          /\ BoxA \in Returned(n)
          /\ qlog[m].ret = <<BoxA, BoxWide>>
          /\ qlog[m].fold = <<BoxWide>>
    /\ rendered[2].regions[1].x_range = <<3, 7>>

\* C8: after a successful run every back-reference of a fragment holds the same
\* markup, that of the fragment, in a RawInline html node where the node was a
\* Math node and in a RawBlock html node where it was a tex RawBlock.
C8_RewriteComplete ==
    pc \in {"rendered", "done"} =>
       \A i \in DOMAIN fragments :
          \A j \in DOMAIN fragments[i].refs :
             LET was == NodeAt(input, fragments[i].refs[j].path)
                 now == NodeAt(tree, fragments[i].refs[j].path)
                 html == rendered[i].html
             IN /\ was.t \in {"Math", "RawBlock"}
                /\ now = IF was.t = "Math" THEN JObj("RawInline", JArr(<<JStr(HTML), JStr(html)>>))
                         ELSE JObj("RawBlock", JArr(<<JStr(HTML), JStr(html)>>))
                /\ fragments[i].ty # "DontShow" => Count(html, IMG_OPEN) >= 1

\* A run ended well with an inline-math fragment of two back-references and a
\* raw-block fragment that came from a tex RawBlock.
C8_Witness ==
    /\ pc = "done"
    /\ \E i \in DOMAIN fragments :
          fragments[i].ty = "InlineMath" /\ Len(fragments[i].refs) = 2
    /\ \E i \in DOMAIN fragments :
          fragments[i].ty = "RawBlock" /\ fragments[i].refs[1].kind = "Block"

(***************************************************************************)
(* Runs over a family of documents: one piece of math or raw TeX, inside   *)
(* every inline container and every block container of the Pandoc tree.    *)
(***************************************************************************)
MathLeaves == {MathI(T_a), MathD(T_a)}
\* An inline, bare and inside each inline container.
InlineWraps(x) ==
    {x, EmphN(<<x>>), StrongN(<<x>>), UnderlineN(<<x>>), StrikeoutN(<<x>>),
     LinkN(<<x>>), ImageN(<<x>>), SpanN(<<x>>), QuotedN(<<x>>), SuperscriptN(<<x>>),
     NoteN(<<Para(<<x>>)>>)}
\* The blocks that hold inlines directly.
InlineBlocks(x) == {Para(<<x>>), PlainB(<<x>>), HeaderB(2, <<x>>), LineBlock(<<x>>)}
\* A block, bare and inside each block container the walk descends into.
ListedWraps(b) ==
    {b, BlockQuote(<<b>>), BulletList(<<b>>), OrderedList(<<b>>), Div(<<b>>),
     Table(<<b>>, <<>>, <<>>, <<>>), Table(<<>>, <<b>>, <<>>, <<>>),
     Table(<<>>, <<>>, <<b>>, <<>>), Table(<<>>, <<>>, <<>>, <<b>>)}
BlockWraps(b) == ListedWraps(b) \cup {DefinitionList(<<b>>)}

DirectBlocks == UNION {InlineBlocks(x) : x \in MathLeaves}
NestedBlocks == UNION {InlineBlocks(w) : w \in UNION {InlineWraps(x) : x \in MathLeaves}}
\* Math directly inside the inline-holding blocks, those inside the listed block
\* containers.
ListedDocs == {Doc(<<w>>) : w \in UNION {ListedWraps(b) : b \in DirectBlocks}}
WalkDocs ==
    {Doc(<<w>>) : w \in UNION {BlockWraps(b) : b \in NestedBlocks \cup {RawBlockN(TEX, T_a)}}}
    \cup {Doc(<<BlockQuote(<<BulletList(<<Para(<<EmphN(<<StrongN(<<MathI(T_a)>>)>>)>>)>>)>>)>>),
          Doc(<<Para(<<StrN(T_a)>>)>>)}
DocRuns ==
    {[doc |-> d, cfg |-> DefaultConfig] : d \in WalkDocs}
    \cup {[doc |-> Doc(<<Para(<<MathI(T_a)>>)>>), cfg |-> Config("dvi", PREAMBLE, DefaultTemplate, FALSE)]}

InitDoc == \E r \in DocRuns : InitRun(r.doc, r.cfg, DocEnv)

SpecDoc == InitDoc /\ [][Next]_vars

\* Whether a Math node or a tex RawBlock node occurs anywhere in a tree.
RECURSIVE Unreplaced(_)
Unreplaced(v) ==
    \/ v.k = "obj" /\ v.t = "Math"
    \/ v.k = "obj" /\ v.t = "RawBlock" /\ Get(C(v), 0).s = TEX
    \/ \E i \in DOMAIN v.a : Unreplaced(v.a[i])

\* C9: after a successful run the output tree contains no Math node and no tex
\* RawBlock node, wherever in the input tree such a node occurred.
C9_NothingLeftUnreplaced ==
    pc = "done" => ~Unreplaced(out)

\* The paths of the Math nodes of a tree.
RECURSIVE MathPaths(_, _)
MathPaths(v, path) ==
    (IF v.k = "obj" /\ v.t = "Math" THEN {path} ELSE {})
    \cup UNION {MathPaths(v.a[i], Append(path, i)) : i \in DOMAIN v.a}
WalkErrors == {"malformed", "panic", "unknown math type"}

\* C10: on a well-formed tree with math inside the block containers Para, Plain,
\* Header, BlockQuote, BulletList, OrderedList, Div, LineBlock and the cells of
\* a Table, the walk succeeds and every Math node is collected as a Fragment with
\* a back-reference to it.
C10_WalkReachesContainers ==
    (input \in ListedDocs /\ pc # "start") =>
       /\ err.kind \notin WalkErrors
       /\ \A p \in MathPaths(input, <<>>) :
             \E i \in DOMAIN fragments :
                \E j \in DOMAIN fragments[i].refs :
                   /\ fragments[i].refs[j].path = p
                   /\ fragments[i].refs[j].kind = "Inline"

\* The boxes folded by the queries of the run.
FoldedBoxes == UNION {{qlog[n].fold[k] : k \in DOMAIN qlog[n].fold} : n \in DOMAIN qlog}
IsSilent(i) == fragments[i].ty = "DontShow"

\* C11: no query is made for a line of a silent fragment, so the seen set holds
\* only what the queries of the other fragments folded and a silent fragment never
\* fails for lack of boxes; each of its back-references holds an empty raw-HTML
\* node, RawInline for an inline reference and RawBlock for a block reference.
C11_SilentSkipsGeometry ==
    /\ \A n \in DOMAIN qlog : ~IsSilent(qlog[n].frag)
    /\ seen_boxes = FoldedBoxes
    /\ \A i \in 1 .. idx :
          IsSilent(i) =>
             /\ rendered[i].silent
             /\ rendered[i].regions = NoRegions
             /\ \A j \in DOMAIN fragments[i].refs :
                   LET ref == fragments[i].refs[j]
                   IN /\ ref.kind = "Inline" <=> NodeAt(input, ref.path).t = "Math"
                      /\ NodeAt(tree, ref.path)
                            = IF ref.kind = "Inline"
                              THEN JObj("RawInline", JArr(<<JStr(HTML), JStr(<<>>)>>))
                              ELSE JObj("RawBlock", JArr(<<JStr(HTML), JStr(<<>>)>>))
    /\ (pc = "failed" /\ err.kind \in GeometryErrors) => ~IsSilent(idx + 1)

\* After an inline fragment put a box in the seen set, a silent display-math
\* node and a silent tex RawBlock were blanked.
C11_Witness ==
    /\ idx = 3
    /\ seen_boxes # {}
    /\ IsSilent(2) /\ fragments[2].refs[1].kind = "Inline"
    /\ IsSilent(3) /\ fragments[3].refs[1].kind = "Block"

\* C12: when a stage of the run fails the run ends with the error and nothing is
\* written to the output; what is written is the tree as it is once every
\* fragment is rewritten and the last block filled, after a run without error.
C12_NoPartialOutput ==
    /\ err # NoError => pc = "failed"
    /\ pc = "failed" => err # NoError /\ out = NoOutput
    /\ out # NoOutput =>
          /\ pc = "done"
          /\ err = NoError
          /\ out = tree
          /\ idx = Len(fragments)
          /\ NodeAt(out, final_node).t = "RawBlock"

\* The second fragment failed for lack of boxes after the node of the first had
\* been overwritten: the tree is partly rewritten and nothing is written out.
C12_Witness ==
    /\ pc = "failed"
    /\ err.kind = "no boxes"
    /\ idx = 1
    /\ NodeAt(tree, fragments[1].refs[1].path).t = "RawInline"
    /\ NodeAt(tree, fragments[2].refs[1].path).t = "Math"
    /\ out = NoOutput

\* Both external tools have completed with success: the pages are there.
ToolsDone ==
    /\ svgs # <<>>
    /\ \E a, b \in DOMAIN externals : a < b /\ externals[a] = "latex" /\ externals[b] = "dvisvgm"
\* The outermost block sequence of a tree.
OuterBlocks(t) == C(t).a
\* The pushed block as the walk leaves it.
EmptyObject == JTag("")

\* C13, as stated: the tree is not mutated in any way (no block appended or
\* filled, no back-reference overwritten) before the compiler and the converter
\* have both completed successfully.
C13_NoMutationBeforeTools ==
    tree # input => ToolsDone

\* C13, amended: until both tools have completed successfully the tree differs
\* from the input only by the block pushed at its end before the walk, which is
\* left empty in a run that has fragments and filled at once only in a run that
\* has none; no back-reference is overwritten and, in a run with fragments, the
\* pushed block is filled only after every fragment is rewritten.
C13_RewriteAfterTools ==
    /\ ~ToolsDone =>
          \/ tree = input
          \/ /\ Len(OuterBlocks(tree)) = Len(OuterBlocks(input)) + 1
             /\ SubSeq(OuterBlocks(tree), 1, Len(OuterBlocks(input))) = OuterBlocks(input)
             /\ NodeAt(tree, final_node) # EmptyObject => fragments = <<>>
    /\ (pc # "start" /\ fragments # <<>> /\ NodeAt(tree, final_node) # EmptyObject) =>
          ToolsDone /\ idx = Len(fragments)

\* The compiler has succeeded and the converter has not run: the tree of a run
\* with fragments is the input with the empty block pushed.
C13_Witness ==
    /\ pc = "compiled"
    /\ fragments # <<>>
    /\ externals = <<"mkdir", "write source.tex", "latex">>
    /\ tree # input
    /\ NodeAt(tree, final_node) = EmptyObject
    /\ \A i \in DOMAIN fragments :
          \A j \in DOMAIN fragments[i].refs :
             NodeAt(tree, fragments[i].refs[j].path) = NodeAt(input, fragments[i].refs[j].path)

\* The input with one block pushed at the end of its outermost sequence.
WithLastBlock(t, b) == [t EXCEPT !.a[1].a = Append(@, b)]

\* C14: when the walk collects no fragment the run succeeds with the tree of the
\* input plus one empty raw-HTML block in the place of the placeholder, and no
\* working directory is made, no source file written and no external program
\* started.
C14_NoFragmentsNoTools ==
    (pc \notin {"start", "failed"} /\ fragments = <<>>) =>
       /\ externals = <<>>
       /\ err = NoError
       /\ source_str = <<>> /\ svgs = <<>> /\ qlog = <<>>
       /\ pc \in {"walked", "rendered", "done"}
       /\ pc \in {"rendered", "done"} =>
             tree = WithLastBlock(input, JObj("RawBlock", JArr(<<JStr(HTML), JStr(<<>>)>>)))
       /\ pc = "done" => out = tree

\* A document whose only math sits in a Span, which the walk does not enter,
\* went through to the output with nothing started.
C14_Witness ==
    /\ pc = "done"
    /\ fragments = <<>>
    /\ externals = <<>>
    /\ Unreplaced(input)
    /\ NodeAt(out, final_node) = RawBlockHtml(<<>>)

\* The external programs started so far, files and directories left out.
Started == SelectSeq(externals, LAMBDA x : x \in SUBPROCESSES)

\* C15: in each mode a run with fragments starts exactly two external programs,
\* the compiler and then, only after the compiler exited with status zero, the
\* converter; no other program is started or can make the run fail.
C15_TwoSubprocesses ==
    /\ Started \in {<<>>, <<"latex">>, <<"latex", "dvisvgm">>}
    /\ (fragments # <<>> /\ pc \in {"converted", "rendered", "done"}) =>
          Started = <<"latex", "dvisvgm">>
    /\ (pc = "failed" /\ err.kind = "latex") => "dvisvgm" \notin {Started[k] : k \in DOMAIN Started}
    /\ err.kind \in {"none", "malformed", "panic", "unknown math type", "io", "latex",
                    "dvisvgm", "lzma"} \cup GeometryErrors

\* The greatest width among a non-empty set of boxes.
MaxWidth(bs) == CHOOSE w \in {b.width : b \in bs} : \A b \in bs : b.width <= w

\* C17: a box with width * (height + depth) <= 1e-6 is never folded: it creates
\* no Region and changes no Region's x-range, y-range, baseline or widest-box
\* width.  The Regions of a fragment are those of the pages of its remaining
\* boxes, each the hull of the remaining boxes of its page.
C17_ZeroAreaRejected ==
    /\ \A n \in DOMAIN qlog : \A k \in DOMAIN qlog[n].fold : HasArea(qlog[n].fold[k])
    /\ \A b \in seen_boxes : HasArea(b)
    /\ \A i \in 1 .. idx :
          ~IsSilent(i) =>
             /\ DOMAIN rendered[i].regions = SurvivingPages(i)
             /\ \A p \in SurvivingPages(i) :
                   LET bs == {b \in FirstTimeBoxes(i) : b.page = p}
                       r == rendered[i].regions[p]
                   IN /\ r.x_range = HullX(bs)
                      /\ r.y_range = HullY(bs)
                      /\ r.baseline_width = MaxWidth(bs)
                      /\ r.baseline \in {b.v : b \in {c \in bs : c.width = MaxWidth(bs)}}
    /\ (pc = "failed" /\ err.kind = "no boxes") =>
          \A n \in EntriesOf(idx + 1) : qlog[n].fold = <<>>

\* An inline fragment whose line returned a zero-area box of page 1 and a box of
\* page 2 was rendered, on page 2 alone.
C17_Witness ==
    \E i \in 1 .. idx :
       /\ fragments[i].ty = "InlineMath"
       /\ \E n \in EntriesOf(i) : qlog[n].ret = <<BoxZero, BoxPage2>>
       /\ DOMAIN rendered[i].regions = {2}
       /\ rendered[i].regions[2].x_range = <<1, 3>>

\* Where the queries of fragment i returned box b: (query, position) pairs.
PositionsOf(i, b) ==
    UNION {{<<n, k>> : k \in {j \in DOMAIN qlog[n].ret : qlog[n].ret[j] = b}} :
              n \in EntriesOf(i)}
NotAfter(a, b) == a[1] < b[1] \/ (a[1] = b[1] /\ a[2] <= b[2])
FirstPosition(i, b) ==
    CHOOSE a \in PositionsOf(i, b) : \A o \in PositionsOf(i, b) : NotAfter(a, o)

\* C20: the baseline of a Region is the vertical position of the first, in query
\* order, of the widest boxes folded into it, and its widest-box width is that
\* greatest width, in whatever order narrower and wider boxes arrive.
C20_BaselineOfWidest ==
    \A i \in 1 .. idx :
       \A p \in DOMAIN rendered[i].regions :
          LET bs == {b \in FirstTimeBoxes(i) : b.page = p}
              widest == {b \in bs : b.width = MaxWidth(bs)}
              first == CHOOSE b \in widest :
                          \A c \in widest : NotAfter(FirstPosition(i, b), FirstPosition(i, c))
              r == rendered[i].regions[p]
          IN /\ r.baseline_width = MaxWidth(bs)
             /\ r.baseline = first.v

\* Two boxes of one width and different vertical positions were folded into one
\* Region: the baseline is that of the one returned first.
C20_Witness ==
    /\ idx = 1
    /\ qlog[1].ret = <<BoxTie, BoxA>>
    /\ qlog[1].fold = <<BoxTie, BoxA>>
    /\ rendered[1].regions[1].baseline = BoxTie.v
    /\ rendered[1].regions[1].baseline # BoxA.v
    /\ rendered[1].regions[1].baseline_width = 2

\* Every loop of the walk goes through an array from its first item to its last,
\* so the walk reaches the node at path p before the node at path q when p comes
\* first in the lexicographic order of paths.
PathBefore(p, q) ==
    \/ Len(p) < Len(q) /\ SubSeq(q, 1, Len(p)) = p
    \/ \E n \in 1 .. Min2(Len(p), Len(q)) :
          /\ SubSeq(p, 1, n - 1) = SubSeq(q, 1, n - 1)
          /\ p[n] < q[n]
\* The paths of the tex RawBlock nodes of a tree.
RECURSIVE RawPaths(_, _)
RawPaths(v, path) ==
    (IF v.k = "obj" /\ v.t = "RawBlock" /\ Get(C(v), 0).s = TEX THEN {path} ELSE {})
    \cup UNION {RawPaths(v.a[i], Append(path, i)) : i \in DOMAIN v.a}
RefPaths(i) == {fragments[i].refs[j].path : j \in DOMAIN fragments[i].refs}
FirstRef(i) == fragments[i].refs[1].path
Collected == pc # "start" /\ err.kind \notin WalkErrors
Assembled == Collected /\ pc # "walked" /\ fragments # <<>>
\* The text of expansion i in the assembled source.
ExpansionOf(i) == SubSeq(source_str, offsets[i].at + 1, offsets[i].at + offsets[i].len)

\* C21: the fragments are in the walk order of their first occurrences: every
\* math and raw TeX node of the document is referenced by exactly one fragment,
\* the first back-reference of a fragment is its earliest node, a fragment that
\* is not inline math has one node, and the first nodes of the fragments come in
\* walk order.  The assembled source has one expansion per fragment, in that
\* order, so that a raw or silent block between two occurrences of one inline
\* math is expanded after the single expansion of that inline math.
C21_FirstOccurrenceOrder ==
    /\ Collected =>
          /\ \A p \in MathPaths(input, <<>>) \cup RawPaths(input, <<>>) :
                Cardinality({i \in DOMAIN fragments : p \in RefPaths(i)}) = 1
          /\ \A i \in DOMAIN fragments :
                /\ fragments[i].refs # <<>>
                /\ RefPaths(i) \subseteq MathPaths(input, <<>>) \cup RawPaths(input, <<>>)
                /\ Cardinality(RefPaths(i)) = Len(fragments[i].refs)
                /\ \A p \in RefPaths(i) \ {FirstRef(i)} : PathBefore(FirstRef(i), p)
                /\ fragments[i].ty # "InlineMath" => Len(fragments[i].refs) = 1
          /\ \A i, j \in DOMAIN fragments :
                i < j <=> PathBefore(FirstRef(i), FirstRef(j))
    /\ Assembled =>
          /\ Len(offsets) = Len(fragments)
          /\ \A i \in DOMAIN fragments :
                /\ ExpansionOf(i) = TrimEnd(Expand(fragments[i], config.template))
                /\ i < Len(fragments) =>
                      offsets[i].at + offsets[i].len < offsets[i + 1].at
          /\ \A i, k \in DOMAIN fragments :
                (/\ fragments[i].ty = "InlineMath"
                 /\ fragments[k].ty \in {"RawBlock", "DontShow"}
                 /\ PathBefore(FirstRef(i), FirstRef(k))
                 /\ \E p \in RefPaths(i) : PathBefore(FirstRef(k), p))
                => offsets[i].at + offsets[i].len < offsets[k].at

\* A run that went to its end on a document where a raw or silent block stands
\* between two occurrences of one inline math: the inline fragment has both
\* back-references and is expanded first.
C21_Witness ==
    /\ pc = "done"
    /\ Assembled
    /\ \E i, k \in DOMAIN fragments :
          /\ fragments[i].ty = "InlineMath"
          /\ Len(fragments[i].refs) = 2
          /\ fragments[k].ty \in {"RawBlock", "DontShow"}
          /\ PathBefore(FirstRef(i), FirstRef(k))
          /\ PathBefore(FirstRef(k), fragments[i].refs[2].path)
          /\ i < k
          /\ offsets[i].at < offsets[k].at

(***************************************************************************)
(* refine_y_range on its own: every list of at most MaxBboxes leaf bboxes  *)
(* and every extent with coordinates up to MaxCoord.                       *)
(***************************************************************************)
MaxCoord == 3
MaxBboxes == 1

\* The variables of a run, at rest while a function is applied on its own.
NoRun ==
    /\ config = DefaultConfig
    /\ input = JNull /\ tree = JNull /\ final_node = <<>> /\ fragments = <<>>
    /\ visited = <<>> /\ source_str = <<>> /\ lines = <<>> /\ offsets = <<>>
    /\ env = Env({}, {}) /\ svgs = <<>> /\ seen_boxes = {} /\ idx = 0
    /\ qlog = <<>> /\ rendered = <<>> /\ externals = <<>>
    /\ err = NoError /\ out = NoOutput
run_vars == <<config, input, tree, final_node, fragments, visited, source_str, lines, offsets,
              env, svgs, seen_boxes, idx, qlog, rendered, externals, err, out>>

Extents == {e \in (0 .. MaxCoord) \X (0 .. MaxCoord) : e[1] <= e[2]}
RefineArgs ==
    {[bboxes |-> bs, y_min |-> e[1], y_max |-> e[2], tol |-> tol] :
        bs \in UNION {[1 .. n -> {Bbox(x[1], x[2]) : x \in Extents}] : n \in 0 .. MaxBboxes},
        e \in Extents, tol \in {0, 1}}

InitRefine ==
    /\ pc = "refine"
    /\ arg \in RefineArgs
    /\ ret = NoCall
    /\ NoRun

Refine ==
    /\ pc = "refine"
    /\ ret' = RefineYRange(arg.bboxes, arg.y_min, arg.y_max, arg.tol)
    /\ pc' = "refined"
    /\ UNCHANGED arg
    /\ UNCHANGED run_vars

NextRefine == Refine
SpecRefine == InitRefine /\ [][NextRefine]_vars

\* The bboxes whose vertical extent meets [y_min - tol, y_max + tol].
Intersecting(a) ==
    {i \in DOMAIN a.bboxes :
        a.bboxes[i].top <= a.y_max + a.tol /\ a.bboxes[i].bottom >= a.y_min - a.tol}

\* C18: the extent refine_y_range returns contains the extent passed in and
\* every leaf bbox that intersects it within the tolerance, and nothing more;
\* when no bbox intersects it is the extent passed in.
C18_RefineIsUnion ==
    pc = "refined" =>
       /\ ret[1] <= arg.y_min /\ arg.y_max <= ret[2]
       /\ \A i \in Intersecting(arg) :
             ret[1] <= arg.bboxes[i].top /\ arg.bboxes[i].bottom <= ret[2]
       /\ ret[1] \in {arg.y_min} \cup {arg.bboxes[i].top : i \in Intersecting(arg)}
       /\ ret[2] \in {arg.y_max} \cup {arg.bboxes[i].bottom : i \in Intersecting(arg)}
       /\ Intersecting(arg) = {} => ret = <<arg.y_min, arg.y_max>>

(***************************************************************************)
(* svg_utils::patch_font.  A byte buffer (&[u8], Vec<u8>) is kept as its    *)
(* runs of equal bytes: a sequence of [b, e], the byte b filling the buffer *)
(* up to offset e (exclusive) from the end of the run before.  Adjacent     *)
(* runs differ in b and none is empty, so equal buffers are equal values.   *)
(***************************************************************************)
Run(b, e) == [b |-> b, e |-> e]
RunStart(x, i) == IF i = 1 THEN 0 ELSE x[i - 1].e
\* len()
BLen(x) == IF Len(x) = 0 THEN 0 ELSE x[Len(x)].e
\* The buffer of the given bytes.
Bytes(seq) ==
    LET ends == {i \in DOMAIN seq : i = Len(seq) \/ seq[i] # seq[i + 1]}
        EndOf(k) == CHOOSE i \in ends : Cardinality({j \in ends : j < i}) = k - 1
    IN [k \in 1 .. Cardinality(ends) |-> Run(seq[EndOf(k)], EndOf(k))]
\* extend / extend_from_slice
Cat(x, y) ==
    LET n == BLen(x)
        shifted == [i \in DOMAIN y |-> Run(y[i].b, y[i].e + n)]
    IN IF Len(x) = 0 THEN y
       ELSE IF Len(y) = 0 THEN x
       ELSE IF x[Len(x)].b = y[1].b THEN SubSeq(x, 1, Len(x) - 1) \o shifted
       ELSE x \o shifted
\* &x[k..] and &x[..k]
Drop(x, k) ==
    LET gone == Cardinality({i \in DOMAIN x : x[i].e <= k})
    IN [i \in 1 .. (Len(x) - gone) |-> Run(x[i + gone].b, x[i + gone].e - k)]
Take(x, k) ==
    LET kept == Cardinality({i \in DOMAIN x : RunStart(x, i) < k})
    IN [i \in 1 .. kept |-> Run(x[i].b, IF x[i].e < k THEN x[i].e ELSE k)]
\* font[a..b]
Slice(font, a, b) == Take(Drop(font, a), b - a)
ByteAt(font, offset) ==
    font[CHOOSE i \in DOMAIN font : RunStart(font, i) <= offset /\ offset < font[i].e].b

\* u16::to_be_bytes and u32::to_be_bytes; `as u16` keeps the low 16 bits.
U16_RANGE == 65536
AsU16(n) == n % U16_RANGE
U16Bytes(n) == Bytes(<<(n \div 256) % 256, n % 256>>)
U32Bytes(n) ==
    Bytes(<<(n \div 16777216) % 256, (n \div 65536) % 256, (n \div 256) % 256, n % 256>>)
\* result[off..off + len].copy_from_slice(bytes)
CopyFromSlice(result, off, bytes) ==
    Cat(Cat(Take(result, off), bytes), Drop(result, off + BLen(bytes)))
ReadU16(font, offset) == ByteAt(font, offset) * 256 + ByteAt(font, offset + 1)
ReadU32(font, offset) ==
    ByteAt(font, offset) * 16777216 + ByteAt(font, offset + 1) * 65536
        + ByteAt(font, offset + 2) * 256 + ByteAt(font, offset + 3)

NAME_TAG == Bytes(<<110, 97, 109, 101>>)
\* The directory entries named "name"; the loop keeps the last.
NameEntries(font) ==
    {i \in 0 .. (ReadU16(font, 4) - 1) : Slice(font, i * 16 + 12, i * 16 + 16) = NAME_TAG}
\* (table_offset, table_length, table_dir_entry_offset); all 0 without an entry.
NameDirectory(font) ==
    IF NameEntries(font) = {} THEN [offset |-> 0, length |-> 0, entry |-> 0]
    ELSE LET i == CHOOSE m \in NameEntries(font) : \A o \in NameEntries(font) : o <= m
             entry == i * 16 + 12
         IN [offset |-> ReadU32(font, entry + 8), length |-> ReadU32(font, entry + 12),
             entry |-> entry]

\* Whether a Unicode or Macintosh record of the table at offset carries name_id.
HasRecord(font, offset, n_records, name_id) ==
    \E i \in 0 .. (n_records - 1) :
       LET record_offset == offset + 6 + 12 * i
       IN /\ ReadU16(font, record_offset) \in {0, 1}
          /\ ReadU16(font, record_offset + 6) = name_id

\* The Mac Roman English record of name_id for the appended name.
NewRecord(name_id, name_length, name_offset) ==
    Cat(Bytes(<<0, 1, 0, 0, 0, 0, 0, name_id>>), Cat(U16Bytes(name_length), U16Bytes(name_offset)))

FontOk(bytes) == [ok |-> TRUE, bytes |-> bytes, error |-> ""]
FontErr(e) == [ok |-> FALSE, bytes |-> <<>>, error |-> e]

PatchFont(font, family) ==
    LET dir == NameDirectory(font)
        offset == dir.offset
        length == dir.length
    IN IF length = 0 THEN FontErr("font missing name table")
       ELSE IF ReadU16(font, offset) # 0 THEN FontErr("wrong name table version in font")
       ELSE
       LET n_records == ReadU16(font, offset + 2)
           string_offset == offset + ReadU16(font, offset + 4)
           string == Slice(font, string_offset, offset + length)
           has_name == HasRecord(font, offset, n_records, 1)
           has_post == HasRecord(font, offset, n_records, 6)
           new_offset == BLen(font)
           name_offset == AsU16(BLen(string))
           name_length == AsU16(BLen(family))
           patch == ~has_name \/ ~has_post
           n_new == n_records + (IF has_name THEN 0 ELSE 1) + (IF has_post THEN 0 ELSE 1)
           records == Slice(font, offset, offset + 6 + 12 * n_records)
           added ==
               Cat(IF has_name THEN <<>> ELSE NewRecord(1, name_length, name_offset),
                   IF has_post THEN <<>> ELSE NewRecord(6, name_length, name_offset))
           strings == Cat(string, IF patch THEN family ELSE <<>>)
           result == Cat(font, Cat(records, Cat(added, strings)))
           r1 == CopyFromSlice(result, new_offset + 2, U16Bytes(AsU16(n_new)))
           r2 == CopyFromSlice(r1, new_offset + 4, U16Bytes(AsU16(6 + 12 * AsU16(n_new))))
           r3 == CopyFromSlice(r2, dir.entry + 8, U32Bytes(new_offset))
           r4 == CopyFromSlice(r3, dir.entry + 12, U32Bytes(BLen(result) - new_offset))
       IN FontOk(r4)

\* The layout of a font file: header, table directory, tables.
FontHeader(n_tables) ==
    Cat(Bytes(<<0, 1, 0, 0>>), Cat(U16Bytes(n_tables), Bytes(<<0, 0, 0, 0, 0, 0>>)))
DirEntry(tag, offset, length) ==
    Cat(tag, Cat(Bytes(<<0, 0, 0, 0>>), Cat(U32Bytes(offset), U32Bytes(length))))
NameRecord(platform_id, name_id, length, offset) ==
    Cat(U16Bytes(platform_id),
        Cat(Bytes(<<0, 0, 0, 0>>),
            Cat(U16Bytes(name_id), Cat(U16Bytes(length), U16Bytes(offset)))))
RECURSIVE Flatten(_)
Flatten(ss) == IF ss = <<>> THEN <<>> ELSE Cat(ss[1], Flatten(Tail(ss)))
\* A name table: records, unused bytes before the string block, the strings.
NameTable(format, records, gap, strings) ==
    Cat(U16Bytes(format),
        Cat(U16Bytes(Len(records)),
            Cat(U16Bytes(6 + 12 * Len(records) + BLen(gap)),
                Cat(Flatten(records), Cat(gap, strings)))))
GLYF_TAG == Bytes(<<103, 108, 121, 102>>)
GlyfTable == Bytes(<<1, 2, 3>>)
\* A font of a glyf table and a name table, the name table first or last.
FontOf(name_table, name_first) ==
    IF name_first
    THEN Cat(FontHeader(2),
             Cat(DirEntry(NAME_TAG, 44, BLen(name_table)),
                 Cat(DirEntry(GLYF_TAG, 44 + BLen(name_table), BLen(GlyfTable)),
                     Cat(name_table, GlyfTable))))
    ELSE Cat(FontHeader(2),
             Cat(DirEntry(GLYF_TAG, 44, BLen(GlyfTable)),
                 Cat(DirEntry(NAME_TAG, 44 + BLen(GlyfTable), BLen(name_table)),
                     Cat(GlyfTable, name_table))))
FontWithoutName ==
    Cat(FontHeader(1), Cat(DirEntry(GLYF_TAG, 28, BLen(GlyfTable)), GlyfTable))

MaxRecords == 2
MaxPatches == 2
\* (platform, name id) of the records a table is made of: Unicode, Macintosh and
\* Windows records of the family, subfamily and PostScript names.
RecordKinds == {<<1, 1>>, <<1, 6>>, <<0, 1>>, <<0, 6>>, <<3, 1>>, <<3, 6>>, <<1, 2>>}
STRINGS == Bytes(<<65, 66, 67>>)
\* Record k of a table names the k-th byte of the string block.
RecordsOf(kinds) == [k \in DOMAIN kinds |-> NameRecord(kinds[k][1], kinds[k][2], 1, k - 1)]
SmallFonts ==
    {FontOf(NameTable(0, RecordsOf(kinds), gap, STRINGS), name_first) :
        kinds \in UNION {[1 .. n -> RecordKinds] : n \in 0 .. MaxRecords},
        gap \in {<<>>, Bytes(<<9>>)}, name_first \in BOOLEAN}
    \cup {FontOf(NameTable(1, <<>>, <<>>, STRINGS), TRUE), FontWithoutName}
\* A font whose string block is as long as a u16 can count, with one Windows
\* record naming its last byte.
LongStrings == <<Run(0, U16_RANGE)>>
LongFont ==
    Cat(FontHeader(1),
        Cat(DirEntry(NAME_TAG, 28, 18 + U16_RANGE),
            NameTable(0, <<NameRecord(3, 2, 1, U16_RANGE - 1)>>, <<>>, LongStrings)))
Families == {Bytes(<<70>>), Bytes(<<70, 71>>)}
FontArgs ==
    {[font |-> f, family |-> fam, calls |-> 0] : f \in SmallFonts, fam \in Families}
    \cup {[font |-> LongFont, family |-> Bytes(<<70>>), calls |-> 0]}

InitFont ==
    /\ pc = "font"
    /\ arg \in FontArgs
    /\ ret = NoCall
    /\ NoRun

\* patch_font is called on the font, and then on what it returned.
PatchFontCall ==
    /\ pc = "font"
    /\ arg.calls < MaxPatches
    /\ arg.calls > 0 => ret.ok
    /\ LET font == IF arg.calls = 0 THEN arg.font ELSE ret.bytes
       IN /\ arg' = [font |-> font, family |-> arg.family, calls |-> arg.calls + 1]
          /\ ret' = PatchFont(font, arg.family)
    /\ UNCHANGED pc
    /\ UNCHANGED run_vars

NextFont == PatchFontCall
SpecFont == InitFont /\ [][NextFont]_vars

\* What the name table of a font says, read through its directory entry.
RecordCount(font) == ReadU16(font, NameDirectory(font).offset + 2)
HasFamily(font) == HasRecord(font, NameDirectory(font).offset, RecordCount(font), 1)
HasPostScript(font) == HasRecord(font, NameDirectory(font).offset, RecordCount(font), 6)
\* A font patch_font accepts: it has a name table, of format 0.
Accepted(font) ==
    NameDirectory(font).length # 0 /\ ReadU16(font, NameDirectory(font).offset) = 0

\* C16: given a font whose format-0 name table already has Unicode or Macintosh
\* records of the family name and of the PostScript name, as the output of an
\* earlier call has, patch_font leaves the record count as it is and appends no
\* copy of the name table: the buffer it returns is as long as the font.
C16_PatchIdempotent ==
    (arg.calls >= 1 /\ Accepted(arg.font) /\ HasFamily(arg.font) /\ HasPostScript(arg.font)) =>
       /\ ret.ok
       /\ RecordCount(ret.bytes) = RecordCount(arg.font)
       /\ BLen(ret.bytes) = BLen(arg.font)

\* The ids in missing that a list of records carries, in order.
IdsOf(font, first, count) ==
    [k \in 1 .. count |-> ReadU16(font, first + 12 * (k - 1) + 6)]

\* C19: for a font whose format-0 name table lacks a Unicode or Macintosh record
\* of the family name or of the PostScript name, the directory entry of the
\* buffer patch_font returns designates a table appended at the end of the
\* file; its record count is the old one plus the number of missing ids and its
\* string block starts at 6 + 12 * count; the old records and string bytes are
\* kept at the same offsets in the string block; each new record addresses a
\* copy of the family string inside the new table; and the bytes of the font
\* other than the offset and length of that directory entry are unchanged.
C19_PatchedTable ==
    (arg.calls >= 1 /\ Accepted(arg.font)
        /\ ~(HasFamily(arg.font) /\ HasPostScript(arg.font))) =>
       /\ ret.ok
       /\ LET f == arg.font
              r == ret.bytes
              old == NameDirectory(f)
              new == NameDirectory(r)
              n_old == RecordCount(f)
              missing == (IF HasFamily(f) THEN <<>> ELSE <<1>>)
                         \o (IF HasPostScript(f) THEN <<>> ELSE <<6>>)
              n_new == n_old + Len(missing)
              old_strings == old.offset + ReadU16(f, old.offset + 4)
              new_strings == new.offset + 6 + 12 * n_new
              strings_len == old.offset + old.length - old_strings
          IN /\ new.entry = old.entry
             /\ new.offset = BLen(f)
             /\ new.offset + new.length = BLen(r)
             /\ ReadU16(r, new.offset) = 0
             /\ ReadU16(r, new.offset + 2) = n_new
             /\ ReadU16(r, new.offset + 4) = 6 + 12 * n_new
             /\ Slice(r, new.offset + 6, new.offset + 6 + 12 * n_old)
                    = Slice(f, old.offset + 6, old.offset + 6 + 12 * n_old)
             /\ Slice(r, new_strings, new_strings + strings_len)
                    = Slice(f, old_strings, old_strings + strings_len)
             /\ IdsOf(r, new.offset + 6 + 12 * n_old, Len(missing)) = missing
             /\ \A k \in 1 .. Len(missing) :
                   LET rec == new.offset + 6 + 12 * (n_old + k - 1)
                       len == ReadU16(r, rec + 8)
                       off == ReadU16(r, rec + 10)
                   IN /\ ReadU16(r, rec) \in {0, 1}
                      /\ len = BLen(arg.family)
                      /\ new_strings + off + len <= BLen(r)
                      /\ Slice(r, new_strings + off, new_strings + off + len) = arg.family
             /\ Slice(r, 0, old.entry + 8) = Slice(f, 0, old.entry + 8)
             /\ Slice(r, old.entry + 16, BLen(f)) = Slice(f, old.entry + 16, BLen(f))

====
